---- MODULE Spec2Model ----
(***************************************************************************)
(* A model of the two Zotero abstract scripts:                             *)
(*   src/zotero_abstract_fetcher.py        (ZoteroAbstractFetcher)         *)
(*   src/zotero_pdf_abstract_extractor.py  (PDFAbstractExtractor)          *)
(*                                                                         *)
(* Text is modelled character by character: a Python str is a sequence of  *)
(* one-character strings, so that stripping, prefix removal and the        *)
(* regular expressions of the code are computed, not assumed.              *)
(***************************************************************************)
EXTENDS Integers, Sequences, FiniteSets, TLC

VARIABLES
    \* ---- the ledger file and its parser, one line at a time (SpecLedger)
    ledger,     \* the lines of abstract_updates.txt, without their "\n"
    origin,     \* "serialized": the lines were logged by the scripts; "edited": any lines
    orig,       \* the entries that were serialized (empty for an edited file)
    lpos,       \* index of the next line the for-loop reads
    ps,         \* the parser's locals: the dict objects, current_item, updates
    lpc,        \* "reading" | "parsed" ("idle" outside SpecLedger)
    \* ---- one run of a script (SpecRun)
    script,     \* "fetcher" | "extractor"
    dry_run,    \* --dry-run
    verbose,    \* --verbose
    limit,      \* --limit N, NoLimit when absent
    creds_ok,   \* the configuration holds real credentials
    file_state, \* abstract_updates.txt is "absent" | "present" | "unreadable"
    library,    \* the Zotero library: its items, with their current versions
    fetched,    \* the items as zot.everything() returned them in this run
    all_items,  \* the same items in memory, as the script has changed them
    updates,    \* updates_from_file: the parsed ledger entries (replay)
    queue,      \* abstract_items / items_with_pdfs (discovery)
    idx,        \* the loop's position in updates or queue
    matching_item, \* index in all_items of the item the last entry resolved to, 0 for none
    pending,    \* the extracted abstract shown at the approval prompt
    pc,         \* "main" | "replay" | "discover" | "prompt" | "done" | "exit"
    mode,       \* "none" | "replay" | "discovery"
    stats,      \* self.stats
    writes,     \* the payloads handed to zot.update_item, with the library's answer
    lookups,    \* OpenAlex requests and PDF downloads made
    answers,    \* the abstract each of them gave, '' for none
    responses,  \* what was typed at the approval prompt, answer by answer
    summaries,  \* calls of print_summary
    ext_edits,  \* edits another actor made to the library during the run
    reprompts,  \* answers at the prompt that were none of y, n, e, q
    run_no,     \* 1 in the first run; 2 when the operator has run the script again
    first_writes, \* the writes of the first run, once the second has begun
    \* ---- one call of the segmenter (SpecSegment)
    page_text,  \* text: the text of the first pages of the PDF
    start_no,   \* the position of the loop in ABSTRACT_START_PATTERNS
    remaining_text, \* text[start_pos:] of the last start pattern that matched
    end_pos,    \* where the last candidate was cut in remaining_text
    candidate,  \* abstract: the last candidate, cleaned
    result,     \* the value returned
    spc,        \* "search" | "returned" ("idle" outside SpecSegment)
    \* ---- calls of clean_doi (SpecDoi)
    core,       \* the identifier a decorated string was made from
    raw_doi,    \* doi: the string handed to the first call
    cleaned,    \* the value the last call returned
    calls,      \* how many times clean_doi has been applied
    \* ---- one call of format_citation or of reconstruct_abstract (SpecFormat)
    item_data,  \* the record handed to format_citation: its creators and its date
    formatted,  \* the citation label returned
    word_seq,   \* the words of an abstract, in their order
    inverted_index, \* the index OpenAlex holds for them, as the dict enumerates it
    rebuilt,    \* the text reconstruct_abstract returned
    fpc         \* "cite" | "cited" | "rebuild" | "rebuilt" ("idle" outside SpecFormat)

ledgerVars == <<ledger, origin, orig, lpos, ps, lpc>>

runVars == <<script, dry_run, verbose, limit, creds_ok, file_state, library, fetched,
             all_items, updates, queue, idx, matching_item, pending, pc, mode, stats,
             writes, lookups, answers, responses, summaries, ext_edits, reprompts, run_no,
             first_writes>>

segVars == <<page_text, start_no, remaining_text, end_pos, candidate, result, spc>>

doiVars == <<core, raw_doi, cleaned, calls>>

fmtVars == <<item_data, formatted, word_seq, inverted_index, rebuilt, fpc>>

otherVars == <<segVars, doiVars, fmtVars>>

vars == <<ledgerVars, runVars, segVars, doiVars, fmtVars>>

-----------------------------------------------------------------------------
(* Bounds of the model *)

\* most entries serialized into one ledger
MaxEntries == 2
\* most lines of a hand-edited ledger
MaxLines == 4

-----------------------------------------------------------------------------
(* Python str operations *)

Whitespace == {" ", "\t", "\n", "\r"}

Digits == {"0", "1", "2", "3", "4", "5", "6", "7", "8", "9"}

SetMin(S) == CHOOSE x \in S : \A y \in S : x <= y

SetMax(S) == CHOOSE x \in S : \A y \in S : x >= y

\* s.startswith(p)
StartsWith(s, p) == Len(s) >= Len(p) /\ SubSeq(s, 1, Len(p)) = p

\* s[n:]
Drop(s, n) == IF n >= Len(s) THEN <<>> ELSE SubSeq(s, n + 1, Len(s))

\* s.rstrip(chars)
RStripChars(s, chars) ==
    LET keep == {i \in 1..Len(s) : s[i] \notin chars}
    IN  IF keep = {} THEN <<>> ELSE SubSeq(s, 1, SetMax(keep))

\* the index before the longest run of characters of S that ends at i
RECURSIVE RunStart(_, _, _)
RunStart(s, i, S) ==
    IF i < 1 \/ s[i] \notin S THEN i ELSE RunStart(s, i - 1, S)

\* the index after the longest run of characters of S that starts at i (greedy S*)
RECURSIVE RunEnd(_, _, _)
RunEnd(s, i, S) ==
    IF i > Len(s) \/ s[i] \notin S THEN i ELSE RunEnd(s, i + 1, S)

\* s.strip()
Strip(s) ==
    LET first == RunEnd(s, 1, Whitespace)
        last == RunStart(s, Len(s), Whitespace)
    IN  IF first > last THEN <<>> ELSE SubSeq(s, first, last)

\* str(n) for the small numbers the model prints
IntToStr(n) ==
    LET d == <<"0", "1", "2", "3", "4", "5", "6", "7", "8", "9">>
    IN  IF n < 10 THEN <<d[n + 1]>> ELSE <<d[(n \div 10) + 1], d[(n % 10) + 1]>>

\* number of leading digits of s (the greedy \d+)
LeadingDigits(s) ==
    LET nd == {i \in 1..Len(s) : s[i] \notin Digits}
    IN  IF nd = {} THEN Len(s) ELSE SetMin(nd) - 1

\* a pattern of fixed length: DIGIT stands for \d, anything else for itself
DIGIT == "\\d"

MatchTemplate(s, pat) ==
    /\ Len(s) >= Len(pat)
    /\ \A i \in 1..Len(pat) :
          IF pat[i] = DIGIT THEN s[i] \in Digits ELSE s[i] = pat[i]

-----------------------------------------------------------------------------
(* Literals of the code *)

S_Processing == <<"P","r","o","c","e","s","s","i","n","g"," ","[">>
S_Title == <<"T","i","t","l","e",":">>
S_DOI == <<"D","O","I",":">>
S_Abstract == <<"A","b","s","t","r","a","c","t",":">>
S_DryRun == <<" "," ","[","D","R","Y"," ","R","U","N","]"," ","W","o","u","l","d"," ","u","p","d","a","t","e"," ","a","b","s","t","r","a","c","t"," ","f","o","r"," ">>
S_Chars == <<" ","c","h","a","r","s",")">>
\* what logging.Formatter('%(asctime)s - %(levelname)s - %(message)s') puts first
S_LogStamp == <<"2","0","2","5","-","1","2","-","2","2"," ","1","6",":","1","1",":","5","2",",","5","4","9"," ","-"," ","I","N","F","O"," ","-"," ">>

\* r'^\d{4}-\d{2}-\d{2} \d{2}:\d{2}:\d{2},\d{3} - INFO - (.*)$', up to the group
LogPrefixPattern ==
    <<DIGIT,DIGIT,DIGIT,DIGIT,"-",DIGIT,DIGIT,"-",DIGIT,DIGIT," ",
      DIGIT,DIGIT,":",DIGIT,DIGIT,":",DIGIT,DIGIT,",",DIGIT,DIGIT,DIGIT,
      " ","-"," ","I","N","F","O"," ","-"," ">>

-----------------------------------------------------------------------------
(* parse_abstract_updates_file *)

Keys == {"citation", "title", "doi", "abstract"}

\* a Python dict with string values: the keys present, and their values
EmptyDict == [keys |-> {}, val |-> [k \in Keys |-> <<>>]]

DictSet(d, k, v) == [keys |-> d.keys \cup {k}, val |-> [d.val EXCEPT ![k] = v]]

DictGet(d, k, default) == IF k \in d.keys THEN d.val[k] ELSE default

\* the line as it is, for comparison
KeepLogPrefix(line) == line

\* line = log_prefix_match.group(1) if the prefix is there
StripLogPrefix(line) ==
    IF MatchTemplate(line, LogPrefixPattern) THEN Drop(line, Len(LogPrefixPattern)) ELSE line

\* not line or line.startswith('=') or line.startswith('-')
IsSkipped(line) == line = <<>> \/ line[1] \in {"=", "-"}

\* whether r'Processing \[\d+/\d+\] (.+)$' matches at index i of line, and group(1)
ProcessingAt(line, i) ==
    LET rest == Drop(line, i - 1)
        a == Drop(rest, Len(S_Processing))
        n1 == LeadingDigits(a)
        b == Drop(a, n1)
        c == Drop(b, 1)
        n2 == LeadingDigits(c)
        d == Drop(c, n2)
    IN  [ok |-> /\ StartsWith(rest, S_Processing)
                /\ n1 >= 1
                /\ StartsWith(b, <<"/">>)
                /\ n2 >= 1
                /\ StartsWith(d, <<"]", " ">>)
                /\ Len(d) >= 3,
         text |-> Drop(d, 2)]

\* re.search(r'Processing \[\d+/\d+\] (.+)$', line): the leftmost match
SearchProcessing(line) ==
    LET hits == {i \in 1..Len(line) : ProcessingAt(line, i).ok}
    IN  IF hits = {} THEN [ok |-> FALSE, text |-> <<>>]
        ELSE ProcessingAt(line, SetMin(hits))

\* current_item and 'doi' in current_item and 'abstract' in current_item
IsComplete(d) == d.keys # {} /\ "doi" \in d.keys /\ "abstract" \in d.keys

\* updates = []; current_item = {}.  Dicts are objects: updates holds references.
ParserInit == [objs |-> <<EmptyDict>>, cur |-> 1, updates |-> <<>>]

\* updates.append(current_item), when it has a doi and an abstract
Flush(st) ==
    IF IsComplete(st.objs[st.cur]) THEN [st EXCEPT !.updates = Append(@, st.cur)] ELSE st

\* a parser that keeps the spaces after the label: line.strip()[n:]
FieldAfterUnstripped(s, n) == Drop(s, n)

\* line.strip()[n:].strip()
FieldAfter(s, n) == Strip(Drop(s, n))

\* current_item[k] = v
SetField(st, k, v) == [st EXCEPT !.objs[st.cur] = DictSet(@, k, v)]

\* one pass of the loop body over a line of the file
ParseLine(st, raw) ==
    LET line == StripLogPrefix(RStripChars(raw, {"\n"}))
        s == Strip(line)
    IN  IF IsSkipped(line) THEN st
        ELSE IF StartsWith(line, S_Processing) THEN
            LET fl == Flush(st)
                m == SearchProcessing(line)
            IN  IF m.ok
                THEN [objs |-> Append(fl.objs, DictSet(EmptyDict, "citation", m.text)),
                      cur |-> Len(fl.objs) + 1,
                      updates |-> fl.updates]
                ELSE fl
        ELSE IF StartsWith(s, S_Title) THEN SetField(st, "title", FieldAfter(s, 6))
        ELSE IF StartsWith(s, S_DOI) THEN SetField(st, "doi", FieldAfter(s, 4))
        ELSE IF StartsWith(s, S_Abstract) THEN SetField(st, "abstract", FieldAfter(s, 9))
        ELSE st

\* the list the function has built: updates, with each reference followed
Updates(st) == [i \in 1..Len(st.updates) |-> st.objs[st.updates[i]]]

RECURSIVE ParseFrom(_, _, _)
ParseFrom(st, lines, i) ==
    IF i > Len(lines) THEN Flush(st) ELSE ParseFrom(ParseLine(st, lines[i]), lines, i + 1)

\* the value returned for a file that exists: `updates if updates else None`
ParseFile(lines) ==
    LET u == Updates(ParseFrom(ParserInit, lines, 1))
    IN  [none |-> u = <<>>, items |-> u]

-----------------------------------------------------------------------------
(* Serialization: the lines the scripts log for one entry *)

Indent == <<" ", " ">>

EntryLines(i, n, e) ==
    << S_Processing \o IntToStr(i) \o <<"/">> \o IntToStr(n) \o <<"]", " ">> \o e.citation,
       Indent \o S_Title \o <<" ">> \o e.title,
       Indent \o S_DOI \o <<" ">> \o e.doi,
       S_DryRun \o e.citation \o <<" ", "(">> \o IntToStr(Len(e.abstract)) \o S_Chars,
       Indent \o S_Abstract \o <<" ">> \o e.abstract >>

LogLines(entries) ==
    [j \in 1..(5 * Len(entries)) |->
        EntryLines(((j - 1) \div 5) + 1, Len(entries), entries[((j - 1) \div 5) + 1])[((j - 1) % 5) + 1]]

\* the log file's lines carry the formatter's prefix; a ledger typed by hand does not
Serialize(entries, prefixed) ==
    [j \in 1..(5 * Len(entries)) |->
        IF prefixed THEN S_LogStamp \o LogLines(entries)[j] ELSE LogLines(entries)[j]]

-----------------------------------------------------------------------------
(* More str operations, used on identifiers and titles *)

UpperLetters == <<"A","B","C","D","E","F","G","H","I","J","K","L","M","N","O","P","Q","R","S","T","U","V","W","X","Y","Z">>
LowerLetters == <<"a","b","c","d","e","f","g","h","i","j","k","l","m","n","o","p","q","r","s","t","u","v","w","x","y","z">>

LowerChar(c) ==
    IF \E i \in 1..26 : UpperLetters[i] = c
    THEN LowerLetters[CHOOSE i \in 1..26 : UpperLetters[i] = c]
    ELSE c

\* s.lower()
Lower(s) == [i \in 1..Len(s) |-> LowerChar(s[i])]

\* sub in s
Contains(s, sub) == \E i \in 0..Len(s) : StartsWith(Drop(s, i), sub)

\* the elements of a set of numbers, in increasing order
SortedSeq(S) ==
    [i \in 1..Cardinality(S) |-> CHOOSE x \in S : Cardinality({y \in S : y <= x}) = i]

S_http == <<"h","t","t","p">>
S_https == <<"h","t","t","p","s">>
S_colonSlashes == <<":","/","/">>
S_dx == <<"d","x",".">>
S_doiOrg == <<"d","o","i",".","o","r","g","/">>
S_doiColon == <<"d","o","i",":">>
S_pdf == <<"p","d","f">>
S_Unknown == <<"U","n","k","n","o","w","n">>

\* re.sub(r'^https?://(dx\.)?doi\.org/', '', doi)
StripResolver(doi) ==
    LET a == IF StartsWith(doi, S_https) THEN Drop(doi, 5) ELSE Drop(doi, 4)
        b == Drop(a, 3)
        c == IF StartsWith(b, S_dx) THEN Drop(b, 3) ELSE b
    IN  IF /\ StartsWith(doi, S_http)
           /\ StartsWith(a, S_colonSlashes)
           /\ StartsWith(c, S_doiOrg)
        THEN Drop(c, Len(S_doiOrg))
        ELSE doi

\* re.sub(r'^doi:', '', doi, flags=re.IGNORECASE)
StripDoiLabel(doi) ==
    IF Len(doi) >= 4 /\ Lower(SubSeq(doi, 1, 4)) = S_doiColon THEN Drop(doi, 4) ELSE doi

\* clean_doi, the same in both scripts
clean_doi(doi) == Strip(RStripChars(StripDoiLabel(StripResolver(doi)), {".", ",", ";", ":"}))

\* whether r'10\.\d{4,}/[^\s]+' matches at index i of url, and group(0)
UrlDoiAt(url, i) ==
    LET rest == Drop(url, i - 1)
        a == Drop(rest, 3)
        n == LeadingDigits(a)
        b == Drop(a, n)
        c == Drop(b, 1)
        sp == {k \in 1..Len(c) : c[k] \in Whitespace}
        m == IF sp = {} THEN Len(c) ELSE SetMin(sp) - 1
    IN  [ok |-> /\ StartsWith(rest, <<"1", "0", ".">>)
                /\ n >= 4
                /\ StartsWith(b, <<"/">>)
                /\ m >= 1,
         text |-> IF m >= 1 THEN SubSeq(rest, 1, 3 + n + 1 + m) ELSE <<>>]

\* re.search(r'10\.\d{4,}/[^\s]+', url): group(0) of the leftmost match, '' for none
UrlDoi(url) ==
    LET hits == {i \in 1..Len(url) : UrlDoiAt(url, i).ok}
    IN  IF hits = {} THEN <<>> ELSE UrlDoiAt(url, SetMin(hits)).text

-----------------------------------------------------------------------------
(* The library's items and the run's statistics *)

\* --limit was not given (argparse default=None)
NoLimit == -1

NonCitationTypes == {"attachment", "note", "annotation"}

FetcherStats == {"total_checked", "missing_abstract", "missing_abstract_with_doi",
                 "abstracts_found", "abstracts_updated", "errors"}

ExtractorStats == {"total_missing", "has_pdf", "abstract_extracted", "user_approved",
                   "user_skipped", "extraction_failed"}

\* self.stats as __init__ leaves it
StatsInit(s) == [k \in (IF s = "fetcher" THEN FetcherStats ELSE ExtractorStats) |-> 0]

\* self.stats[k] += n
Add(st, k, n) == [st EXCEPT ![k] = @ + n]

\* the counter of applied updates, and the counter of failures, of each script
UpdatedCounter(s) == IF s = "fetcher" THEN "abstracts_updated" ELSE "user_approved"

ErrorCounter(s) == IF s = "fetcher" THEN "errors" ELSE "extraction_failed"

\* data.get("abstractNote", "").strip() is empty
IsMissing(item) == Strip(item.abstractNote) = <<>>

\* the values of the run's variables while only the ledger parser is studied
RunIdle ==
    /\ script = "fetcher" /\ dry_run = FALSE /\ verbose = FALSE /\ limit = NoLimit
    /\ creds_ok = TRUE /\ file_state = "present"
    /\ library = <<>> /\ fetched = <<>> /\ all_items = <<>>
    /\ updates = <<>> /\ queue = <<>> /\ idx = 1 /\ matching_item = 0 /\ pending = <<>>
    /\ pc = "idle" /\ mode = "none" /\ stats = StatsInit("fetcher")
    /\ writes = <<>> /\ lookups = 0 /\ answers = <<>> /\ responses = <<>> /\ summaries = 0 /\ ext_edits = 0 /\ reprompts = 0
    /\ run_no = 1 /\ first_writes = <<>>

\* no call of the segmenter is under way
SegIdle ==
    /\ page_text = <<>> /\ start_no = 1 /\ remaining_text = <<>> /\ end_pos = 0
    /\ candidate = <<>> /\ result = [none |-> TRUE, abstract |-> <<>>] /\ spc = "idle"

\* clean_doi is not being exercised on its own
DoiIdle == core = <<>> /\ raw_doi = <<>> /\ cleaned = <<>> /\ calls = 0

\* neither format_citation nor reconstruct_abstract is being exercised on its own
FmtIdle ==
    /\ item_data = [creators |-> <<>>, date |-> <<>>] /\ formatted = <<>>
    /\ word_seq = <<>> /\ inverted_index = <<>> /\ rebuilt = <<>> /\ fpc = "idle"

-----------------------------------------------------------------------------
(* process_from_updates_file: reconciliation of a ledger entry with the library *)

\* doi_to_item.get(k): the dict is filled item by item with the cleaned and the
\* original DOI of every item that has one, a later item replacing an earlier one
\* under the same key.  0 stands for None.
DoiLookup(items, k) ==
    LET hits == {j \in 1..Len(items) :
                    /\ Strip(items[j].DOI) # <<>>
                    /\ \/ clean_doi(Strip(items[j].DOI)) = k
                       \/ Strip(items[j].DOI) = k}
    IN  IF hits = {} THEN 0 ELSE SetMax(hits)

\* the title fallback: the first item whose title matches, 0 for none
TitleLookup(items, title) ==
    LET hits == {j \in 1..Len(items) :
                    Strip(Lower(items[j].title)) = Strip(Lower(title))}
    IN  IF hits = {} THEN 0 ELSE SetMin(hits)

\* a reconciliation that tries the title before the identifier
FindMatchingItemTitleFirst(items, update) ==
    LET byTitle == TitleLookup(items, DictGet(update, "title", S_Unknown))
        doi == DictGet(update, "doi", <<>>)
        byClean == DoiLookup(items, clean_doi(doi))
    IN  IF byTitle # 0 THEN byTitle
        ELSE IF byClean # 0 THEN byClean ELSE DoiLookup(items, doi)

\* matching_item for one ledger entry (a dict of the parser), 0 when none is found
FindMatchingItem(items, update) ==
    LET title == DictGet(update, "title", S_Unknown)
        doi == DictGet(update, "doi", <<>>)
        byClean == DoiLookup(items, clean_doi(doi))
        byDoi == IF byClean # 0 THEN byClean ELSE DoiLookup(items, doi)
    IN  IF byDoi # 0 THEN byDoi ELSE TitleLookup(items, title)

-----------------------------------------------------------------------------
(* The library's answer to a write, and the two update functions *)

\* zot.update_item(payload) succeeds when the request gets through and the payload
\* carries the version the library holds for that key; otherwise it raises
LibraryAccepts(lib, payload, netfail) ==
    /\ ~netfail
    /\ \E j \in 1..Len(lib) : lib[j].key = payload.key /\ lib[j].version = payload.version

\* the library stores what was submitted, under a new version
LibraryAfterWrite(lib, payload) ==
    [j \in 1..Len(lib) |->
        IF lib[j].key = payload.key
        THEN [payload EXCEPT !.version = lib[j].version + 1]
        ELSE lib[j]]

\* what an update function reads and changes: the items in memory, the library,
\* self.stats, the writes issued; ok is its return value
Ctx == [items |-> all_items, lib |-> library, stats |-> stats, writes |-> writes, ok |-> FALSE]

\* an update whose failure is counted here and again by the caller
update_zotero_abstract_recounted(c, j, item_key, item_version, abstract, dry, netfail) ==
    IF dry
    THEN [c EXCEPT !.stats = Add(@, "abstracts_updated", 1), !.ok = TRUE]
    ELSE LET mem == [c.items EXCEPT ![j].abstractNote = abstract]
             payload == [mem[j] EXCEPT !.key = item_key, !.version = item_version]
             ok == LibraryAccepts(c.lib, payload, netfail)
         IN  [items |-> mem,
              lib |-> IF ok THEN LibraryAfterWrite(c.lib, payload) ELSE c.lib,
              stats |-> Add(c.stats, IF ok THEN "abstracts_updated" ELSE "errors",
                            IF ok THEN 1 ELSE 2),
              writes |-> Append(c.writes, [payload |-> payload, accepted |-> ok,
                                           netfail |-> netfail /\ ~ok]),
              ok |-> ok]

\* an update that does nothing and reports success
update_zotero_abstract_noop(c, j, item_key, item_version, abstract, dry, netfail) ==
    [c EXCEPT !.ok = TRUE]

\* an update that submits the record without the version it was fetched with
update_zotero_abstract_unversioned(c, j, item_key, item_version, abstract, dry, netfail) ==
    IF dry
    THEN [c EXCEPT !.stats = Add(@, "abstracts_updated", 1), !.ok = TRUE]
    ELSE [c EXCEPT !.stats = Add(@, "errors", 1),
                   !.writes = Append(@, [payload |-> [c.items[j] EXCEPT !.abstractNote = abstract,
                                                                        !.version = 0],
                                         accepted |-> FALSE, netfail |-> netfail])]

\* an update that adds the new abstract to the text the record already has
update_zotero_abstract_appending(c, j, item_key, item_version, abstract, dry, netfail) ==
    IF dry
    THEN [c EXCEPT !.stats = Add(@, "abstracts_updated", 1), !.ok = TRUE]
    ELSE LET mem == [c.items EXCEPT ![j].abstractNote = @ \o abstract]
             payload == [mem[j] EXCEPT !.key = item_key, !.version = item_version]
             ok == LibraryAccepts(c.lib, payload, netfail)
         IN  [items |-> mem,
              lib |-> IF ok THEN LibraryAfterWrite(c.lib, payload) ELSE c.lib,
              stats |-> Add(c.stats, IF ok THEN "abstracts_updated" ELSE "errors", 1),
              writes |-> Append(c.writes, [payload |-> payload, accepted |-> ok,
                                           netfail |-> netfail /\ ~ok]),
              ok |-> ok]

\* the fetcher's update_zotero_abstract(item_key, item_version, abstract, item_data,
\* dry_run), item_data being the data of all_items[j]
update_zotero_abstract(c, j, item_key, item_version, abstract, dry, netfail) ==
    IF dry
    THEN [c EXCEPT !.stats = Add(@, "abstracts_updated", 1), !.ok = TRUE]
    ELSE LET mem == [c.items EXCEPT ![j].abstractNote = abstract]
             payload == [mem[j] EXCEPT !.key = item_key, !.version = item_version]
         IN  IF LibraryAccepts(c.lib, payload, netfail)
             THEN [items |-> mem,
                   lib |-> LibraryAfterWrite(c.lib, payload),
                   stats |-> Add(c.stats, "abstracts_updated", 1),
                   writes |-> Append(c.writes, [payload |-> payload, accepted |-> TRUE, netfail |-> FALSE]),
                   ok |-> TRUE]
             ELSE [items |-> mem,
                   lib |-> c.lib,
                   stats |-> Add(c.stats, "errors", 1),
                   writes |-> Append(c.writes, [payload |-> payload, accepted |-> FALSE, netfail |-> netfail]),
                   ok |-> FALSE]

\* an update that reports success and submits nothing
update_zotero_item_unwritten(c, j, abstract, dry, netfail) == [c EXCEPT !.ok = TRUE]

\* an update that writes to the library whether or not the run is a preview
update_zotero_item_always_writes(c, j, abstract, dry, netfail) ==
    LET payload == [c.items[j] EXCEPT !.abstractNote = abstract]
    IN  [c EXCEPT !.lib = LibraryAfterWrite(c.lib, payload),
                  !.writes = Append(@, [payload |-> payload, accepted |-> TRUE, netfail |-> FALSE]),
                  !.ok = TRUE]

\* the extractor's update_zotero_item(item, abstract, dry_run), item being all_items[j]
update_zotero_item(c, j, abstract, dry, netfail) ==
    IF dry
    THEN [c EXCEPT !.ok = TRUE]
    ELSE LET payload == [c.items[j] EXCEPT !.abstractNote = abstract]
         IN  IF LibraryAccepts(c.lib, payload, netfail)
             THEN [c EXCEPT !.lib = LibraryAfterWrite(c.lib, payload),
                            !.writes = Append(@, [payload |-> payload, accepted |-> TRUE, netfail |-> FALSE]),
                            !.ok = TRUE]
             ELSE [c EXCEPT !.writes = Append(@, [payload |-> payload, accepted |-> FALSE, netfail |-> netfail]),
                            !.ok = FALSE]

\* a replay loop that passes over an unmatched entry without counting it
ProcessUpdateSkipSilently(scr, c, m, update, dry, netfail) ==
    LET abstract == DictGet(update, "abstract", <<>>)
        r == update_zotero_item(c, m, abstract, dry, netfail)
    IN  IF m = 0 THEN c
        ELSE IF scr = "fetcher"
        THEN update_zotero_abstract(c, m, c.items[m].key, c.items[m].version,
                                    abstract, dry, netfail)
        ELSE [r EXCEPT !.stats =
                 Add(@, IF r.ok THEN "user_approved" ELSE "extraction_failed", 1)]

\* the body of the replay loop for one ledger entry that resolved to item m (0: none)
ProcessUpdate(scr, c, m, update, dry, netfail) ==
    LET abstract == DictGet(update, "abstract", <<>>)
    IN  IF m = 0 THEN [c EXCEPT !.stats = Add(@, ErrorCounter(scr), 1)]
        ELSE IF scr = "fetcher"
        THEN update_zotero_abstract(c, m, c.items[m].key, c.items[m].version,
                                    abstract, dry, netfail)
        ELSE LET r == update_zotero_item(c, m, abstract, dry, netfail)
             IN  [r EXCEPT !.stats =
                     Add(@, IF r.ok THEN "user_approved" ELSE "extraction_failed", 1)]

-----------------------------------------------------------------------------
(* Discovery: the items to process, and the OpenAlex lookup *)

\* `if limit and len(x) > limit: x = x[:limit]`
ApplyLimit(q, lim) ==
    IF lim # NoLimit /\ lim # 0 /\ Len(q) > lim THEN SubSeq(q, 1, lim) ELSE q

\* the DOI field, or else the first DOI found in the url field
DoiOf(item) ==
    IF Strip(item.DOI) # <<>> THEN Strip(item.DOI) ELSE UrlDoi(item.url)

\* the fetcher's get_items_missing_abstracts: the list returned and the counters
get_items_missing_abstracts(items, lim, st) ==
    LET cited == {j \in 1..Len(items) : items[j].itemType \notin NonCitationTypes}
        missing == {j \in cited : IsMissing(items[j])}
        withDoi == SortedSeq({j \in missing : DoiOf(items[j]) # <<>>})
        found == [i \in 1..Len(withDoi) |->
                    [item |-> withDoi[i],
                     key |-> items[withDoi[i]].key,
                     version |-> items[withDoi[i]].version,
                     doi |-> clean_doi(DoiOf(items[withDoi[i]]))]]
    IN  [queue |-> ApplyLimit(found, lim),
         stats |-> Add(Add(Add(st, "total_checked", Cardinality(cited)),
                           "missing_abstract", Cardinality(missing)),
                       "missing_abstract_with_doi", Len(withDoi))]

\* the extractor's get_items_missing_abstracts_with_pdfs: one element per PDF
\* attachment whose parent misses its abstract
get_items_missing_abstracts_with_pdfs(items, lim, st) ==
    LET missing == {j \in 1..Len(items) :
                       /\ items[j].itemType \notin NonCitationTypes
                       /\ IsMissing(items[j])}
        pdfs == SortedSeq({a \in 1..Len(items) :
                       /\ items[a].itemType = "attachment"
                       /\ Contains(Lower(items[a].contentType), S_pdf)
                       /\ \E j \in missing : items[j].key = items[a].parentItem})
        found == [i \in 1..Len(pdfs) |->
                    [item |-> SetMin({j \in missing : items[j].key = items[pdfs[i]].parentItem}),
                     attachment_key |-> items[pdfs[i]].key]]
    IN  [queue |-> ApplyLimit(found, lim),
         stats |-> Add(Add(st, "total_missing", Cardinality(missing)), "has_pdf", Len(pdfs))]

\* the (position, word) pairs of an inverted index, in the dict's order
RECURSIVE PositionWords(_, _)
PositionWords(index, i) ==
    IF i > Len(index) THEN <<>>
    ELSE [p \in 1..Len(index[i].positions) |->
             [pos |-> index[i].positions[p], word |-> index[i].word]]
         \o PositionWords(index, i + 1)

\* the pairs left in the order of the dict
KeepDictOrder(pw) == pw

\* list.sort(key=position): stable
SortByPosition(pw) ==
    LET rank == [k \in 1..Len(pw) |->
                   Cardinality({j \in 1..Len(pw) :
                       \/ pw[j].pos < pw[k].pos
                       \/ (pw[j].pos = pw[k].pos /\ j < k)}) + 1] \o <<>>
    IN  [r \in 1..Len(pw) |-> pw[CHOOSE k \in 1..Len(pw) : rank[k] = r]] \o <<>>

\* sep.join(strs)
RECURSIVE Join(_, _)
Join(strs, sep) ==
    IF strs = <<>> THEN <<>>
    ELSE IF Len(strs) = 1 THEN strs[1]
    ELSE strs[1] \o sep \o Join(Tail(strs), sep)

\* reconstruct_abstract
reconstruct_abstract(index) ==
    LET sorted == SortByPosition(PositionWords(index, 1))
    IN  Join([i \in 1..Len(sorted) |-> sorted[i].word], <<" ">>)

\* the lookup without its counter, for comparison
fetch_abstract_from_openalex_uncounted(resp, st) ==
    [abstract |-> IF resp.kind = "ok" THEN reconstruct_abstract(resp.index) ELSE <<>>,
     stats |-> IF resp.kind = "error" THEN Add(st, "errors", 1) ELSE st]

\* fetch_abstract_from_openalex, given what the request returned: the abstract
\* ('' for None) and the counters
fetch_abstract_from_openalex(resp, st) ==
    IF resp.kind = "error" THEN [abstract |-> <<>>, stats |-> Add(st, "errors", 1)]
    ELSE IF resp.kind = "notfound" THEN [abstract |-> <<>>, stats |-> st]
    ELSE LET abstract == reconstruct_abstract(resp.index)
         IN  IF resp.index # <<>> /\ abstract # <<>>
             THEN [abstract |-> abstract, stats |-> Add(st, "abstracts_found", 1)]
             ELSE [abstract |-> <<>>, stats |-> st]

-----------------------------------------------------------------------------
(* Inputs of the ledger specification *)

SeqUpTo(S, n) == UNION {[1..k -> S] : k \in 0..n}

CitationPool == { <<"A"," ","&"," ","B"," ","2","0","2","0">>, <<"B"," ">>, <<>> }
TitlePool == { <<"=","t",":">>, <<" ","T"," ","t">> }
DoiPool == { <<"1","0",".","1","/","X",".">> }
AbstractPool == { <<"-","x",","," ","y",".">>, <<"x"," ">> }

EntryPool ==
    [citation : CitationPool, title : TitlePool, doi : DoiPool, abstract : AbstractPool]

\* lines a person editing the ledger may leave behind
LinePool ==
    { S_Processing \o <<"1","/","2","]"," ","A">>,
      S_Processing \o <<"2","/","2","]">>,
      Indent \o S_Title \o <<" ","t">>,
      Indent \o S_DOI \o <<" ","d">>,
      Indent \o S_Abstract \o <<" ","x">>,
      <<"=","=">> }

\* the same lines as the logging formatter writes them to the log file
WithLogPrefix(lines) == [i \in 1..Len(lines) |-> S_LogStamp \o lines[i]]

InitLedger ==
    /\ \/ /\ origin = "serialized"
          /\ orig \in SeqUpTo(EntryPool, MaxEntries)
          /\ \E prefixed \in BOOLEAN : ledger = Serialize(orig, prefixed)
       \/ /\ origin = "edited"
          /\ orig = <<>>
          /\ \E lines \in SeqUpTo(LinePool, MaxLines) :
                ledger \in {lines, WithLogPrefix(lines)}
    /\ lpos = 1
    /\ ps = ParserInit
    /\ lpc = "reading"
    /\ RunIdle
    /\ SegIdle
    /\ DoiIdle
    /\ FmtIdle

\* for line in f: ...
ReadLine ==
    /\ lpc = "reading"
    /\ lpos <= Len(ledger)
    /\ ps' = ParseLine(ps, ledger[lpos])
    /\ lpos' = lpos + 1
    /\ UNCHANGED <<ledger, origin, orig, lpc, runVars, otherVars>>

\* after the loop: "Don't forget the last item"
EndOfFile ==
    /\ lpc = "reading"
    /\ lpos > Len(ledger)
    /\ ps' = Flush(ps)
    /\ lpc' = "parsed"
    /\ UNCHANGED <<ledger, origin, orig, lpos, runVars, otherVars>>

NextLedger == ReadLine \/ EndOfFile

SpecLedger == InitLedger /\ [][NextLedger]_vars

-----------------------------------------------------------------------------
(* Bounds and inputs of the run specification *)

\* most entries of a ledger that is replayed
MaxReplay == 2
\* most edits another actor makes to the library while the run goes on
MaxExternalEdits == 1
\* most answers at the prompt that are none of y, n, e, q
MaxReprompts == 1

Article(key, version, doi, title, abstract, url) ==
    [key |-> key, version |-> version, itemType |-> "journalArticle", DOI |-> doi,
     title |-> title, abstractNote |-> abstract, url |-> url,
     parentItem |-> "", contentType |-> <<>>]

Attachment(key, version, parent, ctype) ==
    [key |-> key, version |-> version, itemType |-> "attachment", DOI |-> <<>>,
     title |-> <<>>, abstractNote |-> <<>>, url |-> <<>>,
     parentItem |-> parent, contentType |-> ctype]

\* no abstract, a DOI
R_X == Article("K1", 3, <<"1","0",".","1","/","X">>, <<"A","l","p","h","a">>, <<>>, <<>>)
\* no abstract, no DOI
R_N == Article("K2", 5, <<>>, <<"B","e","t","a">>, <<>>, <<>>)
\* an abstract, a labelled DOI, and the title of K1 up to case and spaces
R_Y == Article("K3", 7, <<"d","o","i",":","1","0",".","1","/","Y">>, <<" ","a","l","p","h","a">>, <<"o","l","d">>, <<>>)
\* a blank abstract, a DOI only in the url
R_U == Article("K4", 2, <<>>, <<"D","e","l","t","a">>, <<" ">>, <<"h","t","t","p",":","/","/","u","/","1","0",".","1","2","3","4","/","W">>)
\* a DOI whose cleaned form still carries a label
R_D == Article("K5", 4, <<"d","o","i",":","d","o","i",":","x">>, <<"E","p","s">>, <<>>, <<>>)
\* two PDFs of K1, and a web page of K2
P_1 == Attachment("K6", 1, "K1", <<"a","p","p","l","i","c","a","t","i","o","n","/","p","d","f">>)
P_2 == Attachment("K7", 1, "K1", <<"A","p","p","l","i","c","a","t","i","o","n","/","P","D","F">>)
H_1 == Attachment("K8", 1, "K2", <<"t","e","x","t","/","h","t","m","l">>)

LibraryPool ==
    { <<>>,
      <<R_X, R_N, R_Y>>,
      <<R_Y, R_X>>,
      <<R_X, P_1, P_2, R_N, H_1>>,
      <<R_X, R_U, R_N>>,
      <<R_D, R_Y>> }

S_alt == <<"a","l","t">>
S_new == <<"n","e","w">>
S_ext == <<"e","x","t">>
S_cit == <<"A"," ","2","0","2","0">>

\* ledger entries: a DOI to be normalized (with the title of another record), a wrong
\* DOI with a known title, neither, the DOI of a record that has an abstract (with the
\* title of another record), and a DOI that only matches uncleaned
E_norm == [citation |-> S_cit, title |-> <<"B","e","t","a">>, doi |-> <<"h","t","t","p","s",":","/","/","d","o","i",".","o","r","g","/","1","0",".","1","/","X",".">>, abstract |-> S_new]
E_title == [citation |-> S_cit, title |-> <<"A","L","P","H","A"," ">>, doi |-> <<"1","0",".","9","/","Z">>, abstract |-> S_alt]
E_none == [citation |-> S_cit, title |-> <<"G","a","m","m","a">>, doi |-> <<"1","0",".","9","/","Z">>, abstract |-> S_new]
E_has == [citation |-> S_cit, title |-> <<"B","e","t","a">>, doi |-> <<"1","0",".","1","/","Y">>, abstract |-> S_new]
E_raw == [citation |-> S_cit, title |-> <<"O","t","h","e","r">>, doi |-> <<"d","o","i",":","x">>, abstract |-> S_new]

\* the entries a preview run logged, in the order of its log
PreviewLog == <<E_norm, E_title, E_none, E_has, E_raw>>

\* what is left of them after the operator has removed all but those at positions S
Remaining(S) == [i \in 1..Cardinality(S) |-> PreviewLog[SortedSeq(S)[i]]]

\* a ledger whose only entry was cut down to its title
TitleOnlyLedger ==
    << S_Processing \o <<"1", "/", "1", "]", " ">> \o S_cit, Indent \o S_Title \o <<" ">> \o <<"A","l","p","h","a">> >>

\* a ledger whose only entry lost its Title line
NoTitleLedger ==
    << S_Processing \o <<"1", "/", "1", "]", " ">> \o S_cit,
       Indent \o S_DOI \o <<" ">> \o <<"1","0",".","1","/","X">>,
       Indent \o S_Abstract \o <<" ">> \o S_new >>

\* a ledger whose only entry has an unknown DOI and nothing after 'Title:'
EmptyTitleLedger ==
    << S_Processing \o <<"1", "/", "1", "]", " ">> \o S_cit,
       Indent \o S_Title,
       Indent \o S_DOI \o <<" ">> \o <<"1","0",".","9","/","Z">>,
       Indent \o S_Abstract \o <<" ">> \o S_new >>

LedgerPool ==
    {Serialize(Remaining(S), FALSE) :
        S \in {T \in SUBSET (1..Len(PreviewLog)) : Cardinality(T) <= MaxReplay}}
        \cup {TitleOnlyLedger, NoTitleLedger, EmptyTitleLedger}

LimitPool == {NoLimit, 0, 1}

\* abstract_inverted_index of an abstract of 80 words, 'xy' and 'wa' in turn
EightyWords ==
    << [word |-> <<"x", "y">>, positions |-> [i \in 1..40 |-> 2 * i - 1]],
       [word |-> <<"w", "a">>, positions |-> [i \in 1..40 |-> 2 * i - 2]] >>

\* what the OpenAlex request may return: 404, a failed request, a work without an
\* abstract, a work with abstract_inverted_index {"new": [1], "a": [0, 2]}, a work
\* with an abstract of 80 words
ResponsePool ==
    { [kind |-> "notfound", index |-> <<>>],
      [kind |-> "error", index |-> <<>>],
      [kind |-> "ok", index |-> <<>>],
      [kind |-> "ok", index |-> << [word |-> S_new, positions |-> <<1>>],
                                   [word |-> <<"a">>, positions |-> <<0, 2>>] >>],
      [kind |-> "ok", index |-> EightyWords] }

\* OpenAlex holds the abstract of 80 words for the work 10.1/X and the short one for
\* every other work
ResponsesTo(doi) ==
    {r \in ResponsePool :
        r.index # <<>> => (r.index = EightyWords <=> doi = <<"1","0",".","1","/","X">>)}

\* what download and extraction may give: no file, no abstract found, or a text that
\* _find_abstract_in_text accepted
ExtractionPool ==
    { [kind |-> "download_failed", text |-> <<>>],
      [kind |-> "no_abstract", text |-> <<>>],
      [kind |-> "abstract", text |-> S_new] }

\* the lines typed after [e]dit, up to the empty line
EditPool == { <<>>, << <<"e", "d">>, <<"i", "t">> >> }

-----------------------------------------------------------------------------
(* One run: main() and run() of either script *)

configVars == <<script, dry_run, verbose, limit, creds_ok, file_state, ledger,
                origin, orig, lpos, ps, lpc, run_no, first_writes, otherVars>>

InitRun ==
    /\ script \in {"fetcher", "extractor"}
    /\ dry_run \in BOOLEAN
    /\ creds_ok \in BOOLEAN
    /\ library \in LibraryPool
    /\ \/ file_state = "present" /\ ledger \in LedgerPool
       \/ file_state \in {"absent", "unreadable"} /\ ledger = <<>>
    \* --limit and --verbose are read on the discovery path only (what is logged is
    \* not part of the state): a run that replays is given their defaults
    /\ IF file_state = "present" /\ ~ParseFile(ledger).none
       THEN limit = NoLimit /\ verbose = FALSE
       ELSE limit \in LimitPool /\ verbose \in BOOLEAN
    /\ origin = "run" /\ orig = <<>> /\ lpos = 1 /\ ps = ParserInit /\ lpc = "idle"
    /\ fetched = <<>> /\ all_items = <<>> /\ updates = <<>> /\ queue = <<>>
    /\ idx = 1 /\ matching_item = 0 /\ pending = <<>>
    /\ pc = "main" /\ mode = "none" /\ stats = StatsInit(script)
    /\ writes = <<>> /\ lookups = 0 /\ answers = <<>> /\ responses = <<>> /\ summaries = 0 /\ ext_edits = 0 /\ reprompts = 0
    /\ run_no = 1 /\ first_writes = <<>>
    /\ SegIdle
    /\ DoiIdle
    /\ FmtIdle

\* updates_from_file = self.parse_abstract_updates_file(): None when the file is not
\* there, cannot be read, or holds no complete entry
updates_from_file ==
    IF file_state = "present" THEN ParseFile(ledger) ELSE [none |-> TRUE, items |-> <<>>]

\* main(): the placeholders are still in the configuration
MissingCredentials ==
    /\ pc = "main"
    /\ ~creds_ok
    /\ pc' = "exit"
    /\ UNCHANGED <<configVars, library, fetched, all_items, updates, queue, idx,
                   matching_item, pending, mode, stats, writes, lookups, answers, responses, summaries,
                   ext_edits, reprompts>>

\* run(): `if updates_from_file:` and the start of process_from_updates_file
StartReplay ==
    /\ pc = "main"
    /\ creds_ok
    /\ ~updates_from_file.none
    /\ updates' = updates_from_file.items
    /\ fetched' = library
    /\ all_items' = library
    /\ mode' = "replay"
    /\ pc' = "replay"
    /\ idx' = 1
    /\ UNCHANGED <<configVars, library, queue, matching_item, pending, stats, writes,
                   lookups, answers, responses, summaries, ext_edits, reprompts>>

\* run(): otherwise, the items missing abstracts are fetched; the extractor returns
\* at once when there are none
StartDiscovery ==
    /\ pc = "main"
    /\ creds_ok
    /\ updates_from_file.none
    /\ LET r == IF script = "fetcher"
                THEN get_items_missing_abstracts(library, limit, stats)
                ELSE get_items_missing_abstracts_with_pdfs(library, limit, stats)
       IN  /\ queue' = r.queue
           /\ stats' = r.stats
           /\ pc' = IF script = "extractor" /\ r.queue = <<>> THEN "done" ELSE "discover"
    /\ fetched' = library
    /\ all_items' = library
    /\ mode' = "discovery"
    /\ idx' = 1
    /\ UNCHANGED <<configVars, library, updates, matching_item, pending, writes,
                   lookups, answers, responses, summaries, ext_edits, reprompts>>

\* the changes an update function made are the state's
Commit(c) ==
    /\ all_items' = c.items
    /\ library' = c.lib
    /\ stats' = c.stats
    /\ writes' = c.writes

\* process_from_updates_file: one pass of `for i, update in enumerate(updates, 1)`
ReplayEntry ==
    /\ pc = "replay"
    /\ idx <= Len(updates)
    /\ \E netfail \in BOOLEAN :
          LET m == FindMatchingItem(all_items, updates[idx])
          IN  /\ matching_item' = m
              /\ Commit(ProcessUpdate(script, Ctx, m, updates[idx], dry_run, netfail))
    /\ idx' = idx + 1
    /\ UNCHANGED <<configVars, fetched, updates, queue, pending, pc, mode, lookups, answers, responses,
                   summaries, ext_edits, reprompts>>

\* run(): self.print_summary(...); return, after process_from_updates_file
ReplayDone ==
    /\ pc = "replay"
    /\ idx > Len(updates)
    /\ summaries' = summaries + 1
    /\ pc' = "done"
    /\ UNCHANGED <<configVars, library, fetched, all_items, updates, queue, idx,
                   matching_item, pending, mode, stats, writes, lookups, answers, responses, ext_edits,
                   reprompts>>

\* the fetcher's run(): one pass of `for i, item in enumerate(abstract_items, 1)`
FetchEntry ==
    /\ pc = "discover"
    /\ script = "fetcher"
    /\ idx <= Len(queue)
    /\ \E resp \in ResponsesTo(queue[idx].doi) :
          LET q == queue[idx]
              f == fetch_abstract_from_openalex(resp, stats)
              c == [Ctx EXCEPT !.stats = f.stats]
          IN  /\ \E netfail \in BOOLEAN :
                    Commit(IF f.abstract # <<>>
                           THEN update_zotero_abstract(c, q.item, q.key, q.version,
                                                       f.abstract, dry_run, netfail)
                           ELSE c)
              /\ answers' = Append(answers, f.abstract)
    /\ lookups' = lookups + 1
    /\ idx' = idx + 1
    /\ UNCHANGED <<configVars, fetched, updates, queue, matching_item, pending, pc,
                   mode, responses, summaries, ext_edits, reprompts>>

\* the extractor's run(): one pass of `for i, item_info in enumerate(items, 1)`, up
\* to the approval prompt
ExtractEntry ==
    /\ pc = "discover"
    /\ script = "extractor"
    /\ idx <= Len(queue)
    /\ \E got \in ExtractionPool :
          /\ IF got.kind # "abstract"
             THEN /\ stats' = Add(stats, "extraction_failed", 1)
                  /\ idx' = idx + 1
                  /\ UNCHANGED <<pc, pending>>
             ELSE /\ stats' = Add(stats, "abstract_extracted", 1)
                  /\ IF verbose \/ dry_run
                     THEN idx' = idx + 1 /\ UNCHANGED <<pc, pending>>
                     ELSE pc' = "prompt" /\ pending' = got.text /\ UNCHANGED idx
          /\ answers' = Append(answers, got.text)
    /\ lookups' = lookups + 1
    /\ UNCHANGED <<configVars, library, fetched, all_items, updates, queue,
                   matching_item, mode, writes, responses, summaries, ext_edits, reprompts>>

\* response = input(...).lower().strip(), and the lines typed after it: the answer
\* is kept with the place it was given at (the element of the list, the writes
\* issued and the downloads made so far)
Respond(r, t) ==
    responses' = Append(responses, [at |-> idx, response |-> r, text |-> t,
                                    issued |-> Len(writes), lookups |-> lookups])

\* the prompt's loop is left for the next item
NextItem ==
    /\ pc' = "discover"
    /\ idx' = idx + 1
    /\ pending' = <<>>
    /\ UNCHANGED <<configVars, fetched, updates, queue, matching_item, mode, lookups, answers,
                   summaries, ext_edits, reprompts>>

\* the answer is y or yes
AnswerYes ==
    /\ pc = "prompt"
    /\ \E netfail \in BOOLEAN :
          LET r == update_zotero_item(Ctx, queue[idx].item, pending, FALSE, netfail)
          IN  Commit(IF r.ok THEN [r EXCEPT !.stats = Add(@, "user_approved", 1)] ELSE r)
    /\ Respond("y", pending)
    /\ NextItem

\* the answer is n or no
AnswerNo ==
    /\ pc = "prompt"
    /\ stats' = Add(stats, "user_skipped", 1)
    /\ UNCHANGED <<library, all_items, writes>>
    /\ Respond("n", <<>>)
    /\ NextItem

\* the answer is e or edit, followed by the corrected lines
AnswerEdit ==
    /\ pc = "prompt"
    /\ \E lines \in EditPool, netfail \in BOOLEAN :
          LET r == update_zotero_item(Ctx, queue[idx].item, Join(lines, <<" ">>), FALSE, netfail)
          IN  /\ Commit(IF lines = <<>> THEN Ctx
                        ELSE IF r.ok THEN [r EXCEPT !.stats = Add(@, "user_approved", 1)]
                        ELSE r)
              /\ Respond("e", Join(lines, <<" ">>))
    /\ NextItem

\* the answer is q or quit
AnswerQuit ==
    /\ pc = "prompt"
    /\ summaries' = summaries + 1
    /\ pc' = "done"
    /\ Respond("q", <<>>)
    /\ UNCHANGED <<configVars, library, fetched, all_items, updates, queue, idx,
                   matching_item, pending, mode, stats, writes, lookups, answers, ext_edits,
                   reprompts>>

\* any other answer: "Please enter y, n, e, or q"
AnswerOther ==
    /\ pc = "prompt"
    /\ reprompts < MaxReprompts
    /\ reprompts' = reprompts + 1
    /\ Respond("other", <<>>)
    /\ UNCHANGED <<configVars, library, fetched, all_items, updates, queue, idx,
                   matching_item, pending, pc, mode, stats, writes, lookups, answers, summaries,
                   ext_edits>>

\* run(): self.print_summary(...) after the discovery loop
DiscoveryDone ==
    /\ pc = "discover"
    /\ idx > Len(queue)
    /\ summaries' = summaries + 1
    /\ pc' = "done"
    /\ UNCHANGED <<configVars, library, fetched, all_items, updates, queue, idx,
                   matching_item, pending, mode, stats, writes, lookups, answers, responses, ext_edits,
                   reprompts>>

\* another actor changes a record of the library after the run has fetched it
ExternalEdit ==
    /\ pc \in {"replay", "discover", "prompt"}
    /\ run_no = 1
    /\ ext_edits < MaxExternalEdits
    /\ \E j \in 1..Len(library) :
          /\ library[j].itemType \notin NonCitationTypes
          /\ library' = [library EXCEPT ![j].version = @ + 1, ![j].abstractNote = S_ext]
    /\ ext_edits' = ext_edits + 1
    /\ UNCHANGED <<configVars, fetched, all_items, updates, queue, idx, matching_item,
                   pending, pc, mode, stats, writes, lookups, answers, responses, summaries, reprompts>>

\* the operator runs the script once more, live, with the same abstract_updates.txt:
\* main() and run() on a new object, up to the replay loop (a second run is followed
\* for a library that no other actor has changed)
ReplayAgain ==
    /\ pc = "done"
    /\ mode = "replay"
    /\ ~dry_run
    /\ run_no = 1
    /\ ext_edits = 0
    /\ run_no' = 2
    /\ first_writes' = writes
    /\ fetched' = library
    /\ all_items' = library
    /\ stats' = StatsInit(script)
    /\ writes' = <<>>
    /\ idx' = 1
    /\ matching_item' = 0
    /\ summaries' = 0
    /\ pc' = "replay"
    /\ UNCHANGED <<script, dry_run, verbose, limit, creds_ok, file_state, ledger,
                   origin, orig, lpos, ps, lpc, library, updates, queue, pending, mode,
                   lookups, answers, responses, ext_edits, reprompts, otherVars>>

NextRun ==
    \/ MissingCredentials
    \/ StartReplay
    \/ StartDiscovery
    \/ ReplayEntry
    \/ ReplayDone
    \/ FetchEntry
    \/ ExtractEntry
    \/ AnswerYes
    \/ AnswerNo
    \/ AnswerEdit
    \/ AnswerQuit
    \/ AnswerOther
    \/ DiscoveryDone
    \/ ExternalEdit
    \/ ReplayAgain

SpecRun == InitRun /\ [][NextRun]_vars

-----------------------------------------------------------------------------
(* The segmenter: regular expressions of _find_abstract_in_text *)

\* `50 < word_count < 1000`
MinWords == 50
MaxWords == 1000

\* the characters \w matches
WordChars ==
    {UpperLetters[i] : i \in 1..26} \cup {LowerLetters[i] : i \in 1..26} \cup Digits \cup {"_"}

\* text[i], '' outside the text
At(text, i) == IF i >= 1 /\ i <= Len(text) THEN text[i] ELSE ""

\* \b between text[i-1] and text[i]
WordBoundaryAt(text, i) == (At(text, i - 1) \in WordChars) # (At(text, i) \in WordChars)

\* a literal, given in lower case, at index i under re.IGNORECASE
LitAt(text, i, l) ==
    /\ i + Len(l) - 1 <= Len(text)
    /\ \A k \in 1..Len(l) : LowerChar(text[i + k - 1]) = l[k]

\* ABSTRACT_START_PATTERNS, each \b word (\s+ word)* \b [:\s]*, in lower case
ABSTRACT_START_PATTERNS ==
    << << <<"a","b","s","t","r","a","c","t">> >>,
       << <<"s","u","m","m","a","r","y">> >>,
       << <<"e","x","e","c","u","t","i","v","e">>, <<"s","u","m","m","a","r","y">> >>,
       << <<"m","a","n","a","g","e","m","e","n","t">>, <<"s","u","m","m","a","r","y">> >>,
       << <<"s","y","n","o","p","s","i","s">> >>,
       << <<"a","b","s","t","r","a","c","t">> >>,
       << <<"s","u","m","m","a","r","y">> >>,
       << <<"e","x","e","c","u","t","i","v","e">>, <<"s","u","m","m","a","r","y">> >>,
       << <<"m","a","n","a","g","e","m","e","n","t">>, <<"s","u","m","m","a","r","y">> >> >>

\* the index after words w[n..] joined by \s+, matched from index i; 0 for no match
RECURSIVE WordsEndAt(_, _, _, _)
WordsEndAt(text, i, w, n) ==
    IF ~LitAt(text, i, w[n]) THEN 0
    ELSE IF n = Len(w) THEN i + Len(w[n])
    ELSE LET e == i + Len(w[n])
             f == RunEnd(text, e, Whitespace)
         IN  IF f = e THEN 0 ELSE WordsEndAt(text, f, w, n + 1)

\* match.end() of a start pattern matched at index i (as an index: the first
\* character after the match); 0 for no match there
StartPatternEndAt(text, i, w) ==
    LET e == WordsEndAt(text, i, w, 1)
    IN  IF WordBoundaryAt(text, i) /\ e # 0 /\ WordBoundaryAt(text, e)
        THEN RunEnd(text, e, Whitespace \cup {":"})
        ELSE 0

\* re.search(start_pattern, text, re.IGNORECASE): start_pos = match.end() of the
\* leftmost match, as the number of characters before the remaining text; -1 for none
SearchStart(text, w) ==
    LET hits == {i \in 1..Len(text) : StartPatternEndAt(text, i, w) # 0}
    IN  IF hits = {} THEN -1 ELSE StartPatternEndAt(text, SetMin(hits), w) - 1

\* an optional character c at index i: the indexes a match may go on from
Opt(text, i, c) == IF LowerChar(At(text, i)) = c THEN {i, i + 1} ELSE {i}

\* \s*: at index e, whether \s*: matches, or \s*$ under re.MULTILINE
ThenColon(text, e) == At(text, RunEnd(text, e, Whitespace)) = ":"

ThenLineEnd(text, e) ==
    \E j \in e..RunEnd(text, e, Whitespace) : j = Len(text) + 1 \/ At(text, j) = "\n"

\* a keywords label that ends nothing, for comparison
KeywordsNever(text, i) == FALSE

\* r'\b(Keywords?|Key\s*words?)\s*:'
KeywordsAt(text, i) ==
    /\ WordBoundaryAt(text, i)
    /\ \/ /\ LitAt(text, i, <<"k","e","y","w","o","r","d">>)
          /\ \E e \in Opt(text, i + 7, "s") : ThenColon(text, e)
       \/ /\ LitAt(text, i, <<"k","e","y">>)
          /\ LitAt(text, RunEnd(text, i + 3, Whitespace), <<"w","o","r","d">>)
          /\ \E e \in Opt(text, RunEnd(text, i + 3, Whitespace) + 4, "s") : ThenColon(text, e)

\* r'\b(Table\s+of\s+Contents?|TABLE\s+OF\s+CONTENTS?|Contents?)\s*$'
ContentsAt(text, i) ==
    LET e == WordsEndAt(text, i, << <<"t","a","b","l","e">>, <<"o","f">>, <<"c","o","n","t","e","n","t">> >>, 1)
    IN  /\ WordBoundaryAt(text, i)
        /\ \/ e # 0 /\ \E f \in Opt(text, e, "s") : ThenLineEnd(text, f)
           \/ /\ LitAt(text, i, <<"c","o","n","t","e","n","t">>)
              /\ \E f \in Opt(text, i + 7, "s") : ThenLineEnd(text, f)

\* r'\b(Introduction|INTRODUCTION)\b' and r'\b(Background|BACKGROUND)\b'
WordAt(text, i, w) ==
    WordBoundaryAt(text, i) /\ LitAt(text, i, w) /\ WordBoundaryAt(text, i + Len(w))

\* r'\b1\.\s*(Introduction|INTRODUCTION)' and r'\bI\.\s*(Introduction|INTRODUCTION)'
NumberedIntroductionAt(text, i, n) ==
    /\ WordBoundaryAt(text, i)
    /\ LitAt(text, i, <<n, ".">>)
    /\ LitAt(text, RunEnd(text, i + 2, Whitespace), <<"i","n","t","r","o","d","u","c","t","i","o","n">>)

\* r'^\s*\d+\.\s+[A-Z]' under re.MULTILINE and re.IGNORECASE
NumberedHeadingAt(text, i) ==
    LET d == RunEnd(text, i, Whitespace)
        p == RunEnd(text, d, Digits)
        l == RunEnd(text, p + 1, Whitespace)
    IN  /\ i = 1 \/ At(text, i - 1) = "\n"
        /\ p > d
        /\ At(text, p) = "."
        /\ l > p + 1
        /\ LowerChar(At(text, l)) \in {LowerLetters[k] : k \in 1..26}

\* r'\.\s*\.\s*\.\s*\.'
RECURSIVE DotsAt(_, _, _)
DotsAt(text, i, n) ==
    /\ At(text, i) = "."
    /\ n = 1 \/ DotsAt(text, RunEnd(text, i + 1, Whitespace), n - 1)

\* whether end pattern k of ABSTRACT_END_PATTERNS matches at index i
EndPatternAt(text, i, k) ==
    CASE k = 1 -> KeywordsAt(text, i)
      [] k = 2 -> ContentsAt(text, i)
      [] k = 3 -> WordAt(text, i, <<"i","n","t","r","o","d","u","c","t","i","o","n">>)
      [] k = 4 -> WordAt(text, i, <<"b","a","c","k","g","r","o","u","n","d">>)
      [] k = 5 -> NumberedIntroductionAt(text, i, "1")
      [] k = 6 -> NumberedIntroductionAt(text, i, "i")
      [] k = 7 -> NumberedHeadingAt(text, i)
      [] k = 8 -> DotsAt(text, i, 4)

NumEndPatterns == 8

\* re.search(end_pattern, remaining_text, ...): end_match.start() of the leftmost
\* match, len(remaining_text) standing for no match
SearchEnd(text, k) ==
    LET hits == {i \in 1..(Len(text) + 1) : EndPatternAt(text, i, k)}
    IN  IF hits = {} THEN Len(text) ELSE SetMin(hits) - 1

\* the cut at the first pattern of the list that matches, for comparison
EndPosFirstListed(text, k) ==
    LET matching == {j \in 1..k : SearchEnd(text, j) < Len(text)}
    IN  IF matching = {} THEN Len(text) ELSE SearchEnd(text, SetMin(matching))

\* the loop over ABSTRACT_END_PATTERNS: end_pos after patterns 1..k
RECURSIVE EndPos(_, _)
EndPos(text, k) ==
    IF k = 0 THEN Len(text)
    ELSE LET before == EndPos(text, k - 1)
             here == SearchEnd(text, k)
         IN  IF here < before THEN here ELSE before

-----------------------------------------------------------------------------
(* The segmenter: _clean_abstract and the candidate of a start pattern *)

\* whitespace left as it is, for comparison
KeepWhitespace(text) == text

\* re.sub(r'\s+', ' ', text)
CollapseWhitespace(text) ==
    LET marked == [i \in 1..Len(text) |->
                     [c    |-> IF text[i] \in Whitespace THEN " " ELSE text[i],
                      keep |-> ~(text[i] \in Whitespace /\ At(text, i - 1) \in Whitespace)]]
        kept == SelectSeq(marked, LAMBDA m : m.keep)
    IN  [i \in 1..Len(kept) |-> kept[i].c]

\* re.sub(r'\d+\s*$', '', text): the one match is the run of digits that only
\* whitespace separates from the end
StripTrailingDigits(text) ==
    LET q == RunStart(text, Len(text), Whitespace)
    IN  IF q = 0 \/ text[q] \notin Digits THEN text
        ELSE SubSeq(text, 1, RunStart(text, q, Digits))

\* re.sub(r'^\s*[\d\-]+\s*', '', text)
StripLeadingRun(text) ==
    LET d == RunEnd(text, 1, Whitespace)
        p == RunEnd(text, d, Digits \cup {"-"})
    IN  IF p > d THEN Drop(text, RunEnd(text, p, Whitespace) - 1) ELSE text

_clean_abstract(text) ==
    Strip(StripLeadingRun(StripTrailingDigits(CollapseWhitespace(text))))

\* len(abstract.split())
WordCount(text) ==
    Cardinality({i \in 1..Len(text) :
                    text[i] \notin Whitespace /\ (i = 1 \/ text[i - 1] \in Whitespace)})

\* whether start pattern k matches somewhere in the text
StartMatches(t, k) == SearchStart(t, ABSTRACT_START_PATTERNS[k]) # -1

\* remaining_text = text[start_pos:] for start pattern k
RemainingText(t, k) == Drop(t, SearchStart(t, ABSTRACT_START_PATTERNS[k]))

\* abstract = self._clean_abstract(remaining_text[:end_pos].strip())
Candidate(t, k) ==
    LET rest == RemainingText(t, k)
    IN  _clean_abstract(Strip(SubSeq(rest, 1, EndPos(rest, NumEndPatterns))))

\* the validation with both thresholds included, for comparison
ValidatesInclusive(a) ==
    LET word_count == WordCount(a) IN MinWords <= word_count /\ word_count <= MaxWords

\* if 50 < word_count < 1000
Validates(a) == LET word_count == WordCount(a) IN MinWords < word_count /\ word_count < MaxWords

\* Optional[str]: None is the record with none = TRUE
NoAbstract == [none |-> TRUE, abstract |-> <<>>]

-----------------------------------------------------------------------------
(* One call of _find_abstract_in_text, a start pattern at a time *)

\* n words of two letters, "wa" and "xy" in turn, each followed by the separator
\* that seps gives for its position, the last by nothing
Words(n, seps) ==
    [i \in 1..(3 * n - 1) |->
        LET j == (i + 2) \div 3
        IN  CASE i % 3 = 1 -> IF j % 2 = 1 THEN "w" ELSE "x"
              [] i % 3 = 2 -> IF j % 2 = 1 THEN "a" ELSE "y"
              [] OTHER     -> seps[(j % Len(seps)) + 1]]

Spaces == <<" ">>

\* a newline after every third word
Lines == <<"\n", " ", " ">>

KeywordsTail == <<" ","K","e","y","w","o","r","d","s",":"," ","f","o","o",","," ","b","a","r">>

\* page texts: start markers in and out of priority order, bodies around both
\* validation thresholds, each kind of end marker, page-number artifacts
TextPool ==
    { <<>>,
      Words(60, Spaces),
      <<"A","b","s","t","r","a","c","t","s"," ">> \o Words(60, Spaces) }
    \cup { <<"A","b","s","t","r","a","c","t",":"," ">> \o Words(n, Spaces) \o KeywordsTail : n \in {30, 50, 51, 120} }
    \cup { <<"A","b","s","t","r","a","c","t",":"," ">> \o Words(n, Lines) \o KeywordsTail : n \in {30, 120} }
    \cup { <<"S","u","m","m","a","r","y"," ">> \o Words(n, Spaces) : n \in {MaxWords - 1, MaxWords} }
    \cup { <<"S","u","m","m","a","r","y",":"," ">> \o Words(60, Spaces) \o <<"\n","A","b","s","t","r","a","c","t"," ">> \o Words(30, Spaces),
           <<"S","u","m","m","a","r","y",":"," ">> \o Words(55, Spaces) \o <<"\n","A","b","s","t","r","a","c","t"," ">> \o Words(70, Spaces),
           <<"s","u","m","m","a","r","y"," ","w","a"," ","K","e","y","w","o","r","d","s",":"," ","x","y","."," ","E","x","e","c","u","t","i","v","e"," "," ","S","u","m","m","a","r","y",":"," ">> \o Words(60, Lines),
           <<"S","u","m","m","a","r","y"," ","w","a"," ","K","e","y","w","o","r","d","s",":"," ","x","y","."," ","M","A","N","A","G","E","M","E","N","T","\n","S","U","M","M","A","R","Y"," ">> \o Words(60, Spaces),
           <<"S","y","n","o","p","s","i","s","\n">> \o Words(60, Lines) }
    \cup { <<"A","b","s","t","r","a","c","t",":"," ">> \o Words(60, Spaces) \o tail :
              tail \in { <<" ","I","n","t","r","o","d","u","c","t","i","o","n"," ","w","a"," ","x","y"," ","K","e","y","w","o","r","d","s",":"," ","f","o","o">>,
                         <<" ","K","e","y"," ","w","o","r","d","s"," ",":"," ","f","o","o"," ","I","n","t","r","o","d","u","c","t","i","o","n">>,
                         <<" ","1","."," ","I","n","t","r","o","d","u","c","t","i","o","n"," ","w","a">>,
                         <<" ","I","."," ","I","N","T","R","O","D","U","C","T","I","O","N"," ","w","a">>,
                         <<" ","B","a","c","k","g","r","o","u","n","d"," ","w","a"," ","x","y">>,
                         <<"\n"," ","2","."," ","m","e","t","h","o","d","s"," ","w","a">>,
                         <<" ","2","."," ","m","e","t","h","o","d","s"," ","w","a">>,
                         <<"\n","T","a","b","l","e"," ","o","f"," ","C","o","n","t","e","n","t","s","\n","w","a">>,
                         <<" ","c","o","n","t","e","n","t","s"," ","w","a"," ","x","y">>,
                         <<" ","w","a"," ","."," ","."," ",".","."," ","1","2">>,
                         <<" ","w","a",","," ","x","y",".">> } }
    \cup { <<"A","b","s","t","r","a","c","t","\n","1","2"," ">> \o Words(30, Lines) \o <<" ","\n","\t">> \o Words(30, Spaces) \o <<" ","3","4","\n">>,
           <<"A","b","s","t","r","a","c","t",":"," ","1","2"," ","3","4"," ">> \o Words(60, Spaces) \o <<" ","5","6"," ","7","8">>,
           <<"A","b","s","t","r","a","c","t",":"," ","-","-"," ","3","-","4"," ">> \o Words(60, Spaces) \o <<"9"," ">>,
           <<"A","b","s","t","r","a","c","t",":"," ">> \o Words(59, Spaces) \o <<" ","B","a","c","k","g","r","o","u","n","d"," ">> \o Words(60, Spaces)
               \o KeywordsTail,
           <<"A","b","s","t","r","a","c","t",":"," ","2","0","2","0"," ">> \o Words(119, Spaces) \o KeywordsTail }

InitSegment ==
    /\ page_text \in TextPool
    /\ start_no = 1 /\ remaining_text = <<>> /\ end_pos = 0 /\ candidate = <<>>
    /\ result = NoAbstract /\ spc = "search"
    /\ origin = "segment" /\ orig = <<>> /\ ledger = <<>> /\ lpos = 1
    /\ ps = ParserInit /\ lpc = "idle"
    /\ RunIdle
    /\ DoiIdle
    /\ FmtIdle

\* match = re.search(start_pattern, text, re.IGNORECASE) is None: the next pattern
NoStartMatch ==
    /\ spc = "search" /\ start_no <= Len(ABSTRACT_START_PATTERNS)
    /\ ~StartMatches(page_text, start_no)
    /\ start_no' = start_no + 1
    /\ UNCHANGED <<page_text, remaining_text, end_pos, candidate, result, spc>>
    /\ UNCHANGED <<ledgerVars, runVars, doiVars, fmtVars>>

\* `if match:` with a candidate that fails `50 < word_count < 1000`
CandidateRejected ==
    /\ spc = "search" /\ start_no <= Len(ABSTRACT_START_PATTERNS)
    /\ StartMatches(page_text, start_no)
    /\ ~Validates(Candidate(page_text, start_no))
    /\ remaining_text' = RemainingText(page_text, start_no)
    /\ end_pos' = EndPos(remaining_text', NumEndPatterns)
    /\ candidate' = Candidate(page_text, start_no)
    /\ start_no' = start_no + 1
    /\ UNCHANGED <<page_text, result, spc>>
    /\ UNCHANGED <<ledgerVars, runVars, doiVars, fmtVars>>

\* `if match:` with a candidate that passes: return abstract
CandidateReturned ==
    /\ spc = "search" /\ start_no <= Len(ABSTRACT_START_PATTERNS)
    /\ StartMatches(page_text, start_no)
    /\ Validates(Candidate(page_text, start_no))
    /\ remaining_text' = RemainingText(page_text, start_no)
    /\ end_pos' = EndPos(remaining_text', NumEndPatterns)
    /\ candidate' = Candidate(page_text, start_no)
    /\ result' = [none |-> FALSE, abstract |-> candidate']
    /\ spc' = "returned"
    /\ UNCHANGED <<page_text, start_no>>
    /\ UNCHANGED <<ledgerVars, runVars, doiVars, fmtVars>>

\* the loop is over: return None
ReturnNone ==
    /\ spc = "search" /\ start_no > Len(ABSTRACT_START_PATTERNS)
    /\ result' = NoAbstract
    /\ spc' = "returned"
    /\ UNCHANGED <<page_text, start_no, remaining_text, end_pos, candidate>>
    /\ UNCHANGED <<ledgerVars, runVars, doiVars, fmtVars>>

NextSegment == NoStartMatch \/ CandidateRejected \/ CandidateReturned \/ ReturnNone

SpecSegment == InitSegment /\ [][NextSegment]_vars

-----------------------------------------------------------------------------
(* clean_doi applied to decorated identifiers, once and again *)

\* most applications of clean_doi to one string
MaxCalls == 2

\* bare identifiers: no prefix, no trailing punctuation, no whitespace at the ends
CorePool == { <<>>, <<"1","0",".","1","/","A","B","C">>, <<"1","0",".","5","/","a",":","b">> }

ResolverPool == { <<>>, <<"h","t","t","p","s",":","/","/","d","o","i",".","o","r","g","/">>, <<"h","t","t","p",":","/","/","d","x",".","d","o","i",".","o","r","g","/">>, <<"h","t","t","p",":","/","/","d","o","i",".","o","r","g","/">> }

LabelPool == { <<>>, <<"d","o","i",":">>, <<"D","O","I",":">>, <<"D","o","i",":">> }

PunctuationPool == { <<>>, <<".">>, <<",">>, <<";">>, <<":">>, <<".",";">> }

SpacePool == { <<>>, <<" ">>, <<"\n">> }

\* a core with decorations around it, whitespace outermost
Decorated(lead, resolver, label, c, punct, trail) ==
    lead \o resolver \o label \o c \o punct \o trail

InitDoi ==
    /\ core \in CorePool
    /\ \E lead \in SpacePool, resolver \in ResolverPool, label \in LabelPool,
          punct \in PunctuationPool, trail \in SpacePool :
          raw_doi \in { Decorated(lead, resolver, label, core, punct, trail),
                    Decorated(lead, label, resolver, core, punct, trail),
                    Decorated(lead, label, label, core, punct, trail) }
    /\ cleaned = raw_doi
    /\ calls = 0
    /\ origin = "doi" /\ orig = <<>> /\ ledger = <<>> /\ lpos = 1
    /\ ps = ParserInit /\ lpc = "idle"
    /\ RunIdle
    /\ SegIdle
    /\ FmtIdle

\* doi = self.clean_doi(doi)
CleanDoi ==
    /\ origin = "doi" /\ calls < MaxCalls
    /\ cleaned' = clean_doi(cleaned)
    /\ calls' = calls + 1
    /\ UNCHANGED <<core, raw_doi>>
    /\ UNCHANGED <<ledgerVars, runVars, segVars, fmtVars>>

NextDoi == CleanDoi

SpecDoi == InitDoi /\ [][NextDoi]_vars

-----------------------------------------------------------------------------
(* format_citation and reconstruct_abstract, each applied to inputs of its own *)

S_EtAl == <<" ","e","t"," ","a","l",".">>
S_Amp == <<" ","&"," ">>
S_nd == <<"n",".","d",".">>

\* c.get('lastName', 'Unknown'): a creator is a dict that may lack the key
LastName(c) == IF c.hasLastName THEN c.lastName ELSE S_Unknown

\* [c for c in creators if c.get("creatorType") == "author"]
Authors(creators) == SelectSeq(creators, LAMBDA c : c.creatorType = "author")

\* author_part
AuthorPart(authors) ==
    IF authors = <<>> THEN S_Unknown
    ELSE IF Len(authors) = 1 THEN LastName(authors[1])
    ELSE IF Len(authors) = 2 THEN LastName(authors[1]) \o S_Amp \o LastName(authors[2])
    ELSE LastName(authors[1]) \o S_EtAl

\* (19|20)\d{2} at index i of date, wherever it stands
YearAnywhereAt(date, i) ==
    /\ i + 3 <= Len(date)
    /\ <<date[i], date[i + 1]>> \in {<<"1", "9">>, <<"2", "0">>}
    /\ date[i + 2] \in Digits
    /\ date[i + 3] \in Digits

\* whether r'\b(19|20)\d{2}\b' matches at index i of date
YearAt(date, i) ==
    /\ i + 3 <= Len(date)
    /\ WordBoundaryAt(date, i)
    /\ <<date[i], date[i + 1]>> \in {<<"1", "9">>, <<"2", "0">>}
    /\ date[i + 2] \in Digits
    /\ date[i + 3] \in Digits
    /\ WordBoundaryAt(date, i + 4)

\* year_match.group(0) if year_match else "n.d.", re.search giving the leftmost match
Year(date) ==
    LET hits == {i \in 1..Len(date) : YearAt(date, i)}
    IN  IF hits = {} THEN S_nd ELSE SubSeq(date, SetMin(hits), SetMin(hits) + 3)

\* format_citation, the same in both scripts: f"{author_part} {year}"
format_citation(data) == AuthorPart(Authors(data.creators)) \o <<" ">> \o Year(data.date)

\* most creators of a record
MaxCreators == 3
\* most words of an abstract that is indexed
MaxIndexed == 3

Creator(type, has, last) == [creatorType |-> type, hasLastName |-> has, lastName |-> last]

\* two authors, an author entered under a single name (no lastName key), an author
\* whose lastName is the empty string, an editor, a translator without lastName
CreatorPool ==
    { Creator("author", TRUE, <<"S","m","i","t","h">>),
      Creator("author", TRUE, <<"J","o","n","e","s">>),
      Creator("author", FALSE, <<>>),
      Creator("author", TRUE, <<>>),
      Creator("editor", TRUE, <<"E","d">>),
      Creator("translator", FALSE, <<>>) }

DatePool ==
    { <<>>,
      <<"2","0","2","0","-","0","3">>,
      <<"M","a","y"," ","5",","," ","1","9","9","9">>,
      <<"1","2","0","2","0">>,
      <<"2","0","2","0","a"," ","1","9","8","7">>,
      <<"1","8","5","0","/","2","1","0","1">>,
      <<"2","0","0","1","/","1","9","9","9">>,
      <<"2","0","2","0","_","0","3">>,
      <<"i","n"," ","p","r","e","s","s">> }

IndexedWordPool == { <<"a">>, <<"n","e","w">>, <<"A">> }

\* the positions at which word w occurs in ws, counted from 0, in increasing order
PositionsOf(ws, w) == [k \in 1..Cardinality({i \in 1..Len(ws) : ws[i] = w}) |->
                          SortedSeq({i \in 1..Len(ws) : ws[i] = w})[k] - 1]

\* the dicts {word: [positions]} of the words ws, one for every order of the keys
IndexesOf(ws) ==
    LET distinct == {ws[i] : i \in 1..Len(ws)}
        n == Cardinality(distinct)
    IN  {[k \in 1..n |-> [word |-> order[k], positions |-> PositionsOf(ws, order[k])]] :
            order \in {o \in [1..n -> distinct] : \A a, b \in 1..n : o[a] = o[b] => a = b}}

InitFormat ==
    /\ \/ /\ fpc = "cite"
          /\ item_data \in [creators : SeqUpTo(CreatorPool, MaxCreators), date : DatePool]
          /\ word_seq = <<>> /\ inverted_index = <<>>
       \/ /\ fpc = "rebuild"
          /\ item_data = [creators |-> <<>>, date |-> <<>>]
          /\ word_seq \in SeqUpTo(IndexedWordPool, MaxIndexed)
          /\ inverted_index \in IndexesOf(word_seq)
    /\ formatted = <<>> /\ rebuilt = <<>>
    /\ origin = "format" /\ orig = <<>> /\ ledger = <<>> /\ lpos = 1
    /\ ps = ParserInit /\ lpc = "idle"
    /\ RunIdle
    /\ SegIdle
    /\ DoiIdle

\* citation = self.format_citation(data)
FormatCitation ==
    /\ fpc = "cite"
    /\ formatted' = format_citation(item_data)
    /\ fpc' = "cited"
    /\ UNCHANGED <<item_data, word_seq, inverted_index, rebuilt>>
    /\ UNCHANGED <<ledgerVars, runVars, segVars, doiVars>>

\* abstract = self.reconstruct_abstract(work["abstract_inverted_index"])
ReconstructAbstract ==
    /\ fpc = "rebuild"
    /\ rebuilt' = reconstruct_abstract(inverted_index)
    /\ fpc' = "rebuilt"
    /\ UNCHANGED <<item_data, word_seq, inverted_index, formatted>>
    /\ UNCHANGED <<ledgerVars, runVars, segVars, doiVars>>

NextFormat == FormatCitation \/ ReconstructAbstract

SpecFormat == InitFormat /\ [][NextFormat]_vars

-----------------------------------------------------------------------------
(* Claims about the ledger codec *)

AllCitationsNonEmpty == \A i \in 1..Len(orig) : orig[i].citation # <<>>

\* an entry as the dict the parser would have to return for an exact round trip
AsDict(e) == [keys |-> Keys, val |-> [k \in Keys |-> e[k]]]

\* the same, with title, identifier and abstract trimmed of surrounding whitespace
AsTrimmedDict(e) ==
    [keys |-> Keys,
     val |-> [k \in Keys |-> IF k = "citation" THEN e[k] ELSE Strip(e[k])]]

\* C1, as claimed: serializing N entries and parsing the text gives back N entries,
\* in order, each equal field by field to the original.
C1_RoundTripExact ==
    (lpc = "parsed" /\ origin = "serialized")
        => Updates(ps) = [i \in 1..Len(orig) |-> AsDict(orig[i])]

\* C1, amended: when every citation is non-empty, serializing N entries and parsing
\* the text gives back N entries, in order, with the citation verbatim and the title,
\* identifier and abstract equal to the originals trimmed of surrounding whitespace.
C1_RoundTripTrimmed ==
    (lpc = "parsed" /\ origin = "serialized" /\ AllCitationsNonEmpty)
        => Updates(ps) = [i \in 1..Len(orig) |-> AsTrimmedDict(orig[i])]

\* two entries with non-empty citations, one with a padded title, parsed back as two
C1_Witness ==
    /\ lpc = "parsed"
    /\ origin = "serialized"
    /\ Len(orig) = 2
    /\ AllCitationsNonEmpty
    /\ \E i \in 1..2 : Strip(orig[i].title) # orig[i].title
    /\ Len(ps.updates) = 2

\* the field a line sets, as the parser classifies it
FieldOfLine(raw) ==
    LET line == StripLogPrefix(raw)
        s == Strip(line)
    IN  IF IsSkipped(line) THEN "none"
        ELSE IF StartsWith(line, S_Processing) THEN "processing"
        ELSE IF StartsWith(s, S_Title) THEN "title"
        ELSE IF StartsWith(s, S_DOI) THEN "doi"
        ELSE IF StartsWith(s, S_Abstract) THEN "abstract"
        ELSE "none"

\* the entry a line belongs to: the number of 'Processing [' lines up to it
BlockOf(j) == Cardinality({k \in 1..j : FieldOfLine(ledger[k]) = "processing"})

LinesOf(b, f) == {j \in 1..Len(ledger) : BlockOf(j) = b /\ FieldOfLine(ledger[j]) = f}

\* the entries that have an identifier line and an abstract line of their own
CompleteBlocks == {b \in 0..Len(ledger) : LinesOf(b, "doi") # {} /\ LinesOf(b, "abstract") # {}}

NthCompleteBlock(i) ==
    CHOOSE b \in CompleteBlocks : Cardinality({c \in CompleteBlocks : c <= b}) = i

\* the value the last line of entry b for field f carries
LastValue(b, f, n) ==
    FieldAfter(Strip(StripLogPrefix(ledger[SetMax(LinesOf(b, f))])), n)

\* C2, as claimed: for any ledger lines, the entries returned are exactly the entries
\* (runs of lines from one 'Processing [' line to the next) that have an identifier
\* line and an abstract line of their own, each with the values those lines set; an
\* entry lacking either at the next 'Processing [' line or at the end is dropped.
C2_EntriesHaveOwnFields ==
    lpc = "parsed" =>
        /\ \A i \in 1..Len(ps.updates) : IsComplete(Updates(ps)[i])
        /\ Len(ps.updates) = Cardinality(CompleteBlocks)
        /\ \A i \in 1..Len(ps.updates) :
              /\ Updates(ps)[i].val["doi"] = LastValue(NthCompleteBlock(i), "doi", 4)
              /\ Updates(ps)[i].val["abstract"] = LastValue(NthCompleteBlock(i), "abstract", 9)

-----------------------------------------------------------------------------
(* Claims about reconciliation *)

\* the ledger entry the replay loop processed last
LastEntry == updates[idx - 1]

EntryDoi(e) == DictGet(e, "doi", <<>>)

EntryTitle(e) == DictGet(e, "title", S_Unknown)

\* the records whose identifier, cleaned or as stored, is k
RecordsWithDoi(k) ==
    {j \in 1..Len(fetched) :
        /\ Strip(fetched[j].DOI) # <<>>
        /\ k \in {clean_doi(Strip(fetched[j].DOI)), Strip(fetched[j].DOI)}}

\* the records whose lower-cased, trimmed title is that of the entry
RecordsWithTitle(e) ==
    {j \in 1..Len(fetched) : Strip(Lower(fetched[j].title)) = Strip(Lower(EntryTitle(e)))}

\* C3: after the replay loop has reconciled an entry, matching_item is (1) the record
\* mapped from the entry's normalized identifier, else (2) the record mapped from its
\* raw identifier, else (3) the first record with the same lower-cased, trimmed title,
\* else (4) none, and the loop goes on.  So '10.1/X' is matched by
\* 'https://doi.org/10.1/X.', an identifier match wins over a title match on another
\* record, and a wrong identifier with a title match resolves to the title's record.
C3_LookupOrder ==
    (mode = "replay" /\ idx > 1) =>
        LET e == LastEntry
            byNorm == RecordsWithDoi(clean_doi(EntryDoi(e)))
            byRaw == RecordsWithDoi(EntryDoi(e))
            byTitle == RecordsWithTitle(e)
        IN  /\ pc \in {"replay", "done"}
            /\ matching_item =
                  IF byNorm # {} THEN SetMax(byNorm)
                  ELSE IF byRaw # {} THEN SetMax(byRaw)
                  ELSE IF byTitle # {} THEN SetMin(byTitle)
                  ELSE 0
            /\ (/\ EntryDoi(e) = <<"h","t","t","p","s",":","/","/","d","o","i",".","o","r","g","/","1","0",".","1","/","X",".">>
                /\ \E j \in 1..Len(fetched) : fetched[j].DOI = <<"1","0",".","1","/","X">>)
                  => (matching_item # 0 /\ fetched[matching_item].DOI = <<"1","0",".","1","/","X">>)
            /\ (byNorm \cup byRaw # {}) => matching_item \in byNorm \cup byRaw
            /\ (byNorm \cup byRaw = {} /\ byTitle # {}) => matching_item \in byTitle

\* an entry 'https://doi.org/10.1/X.' with the title of another record resolved to
\* the record whose identifier is '10.1/X'
C3_Witness ==
    /\ mode = "replay"
    /\ idx > 1
    /\ EntryDoi(LastEntry) = <<"h","t","t","p","s",":","/","/","d","o","i",".","o","r","g","/","1","0",".","1","/","X",".">>
    /\ matching_item # 0
    /\ fetched[matching_item].DOI = <<"1","0",".","1","/","X">>
    /\ RecordsWithTitle(LastEntry) # {}
    /\ matching_item \notin RecordsWithTitle(LastEntry)

-----------------------------------------------------------------------------
(* Claims about the run *)

\* C4, as claimed: whenever the ledger file exists the run is a replay run and makes
\* no metadata lookup or document extraction, whatever the file contains.
C4_ModeByExistence ==
    (file_state = "present" /\ pc \notin {"main", "exit"})
        => (mode = "replay" /\ lookups = 0)

\* the step applies an update to a record: the replay loop for a matched entry, the
\* fetcher's discovery loop for an abstract that OpenAlex returned
AppliesUpdate ==
    \/ pc = "replay" /\ idx' = idx + 1 /\ matching_item' # 0
    \/ /\ pc = "discover" /\ script = "fetcher" /\ idx' = idx + 1
       /\ stats'["abstracts_found"] = stats["abstracts_found"] + 1

\* C5: in preview mode, applying an update issues no write and increments the counter
\* of updated records (abstracts_updated, user_approved) by one, in both scripts.
C5_PreviewApply ==
    [][(dry_run /\ AppliesUpdate) =>
          /\ writes' = writes
          /\ library' = library
          /\ stats'[UpdatedCounter(script)] = stats[UpdatedCounter(script)] + 1]_vars

\* a preview replay of the extractor has counted two updates and written nothing
C5_Witness ==
    /\ dry_run
    /\ script = "extractor"
    /\ mode = "replay"
    /\ matching_item # 0
    /\ stats["user_approved"] = 2
    /\ writes = <<>>

\* C6: in a run started with --dry-run no write is issued, the records in memory stay
\* as fetched, and the library is changed by nobody but other actors.
C6_DryRunChangesNothing ==
    (dry_run /\ mode # "none") =>
        /\ writes = <<>>
        /\ all_items = fetched
        /\ ext_edits = 0 => library = fetched

\* a preview discovery of the fetcher has ended after applying an update
C6_Witness ==
    /\ dry_run
    /\ script = "fetcher"
    /\ mode = "discovery"
    /\ pc = "done"
    /\ stats["abstracts_updated"] >= 1
    /\ library # <<>>

\* the abstracts a run may submit: those of the ledger, or those found or typed
NewAbstracts ==
    IF mode = "replay"
    THEN {DictGet(updates[i], "abstract", <<>>) : i \in 1..Len(updates)}
    ELSE {reconstruct_abstract(r.index) : r \in ResponsePool}
            \cup {g.text : g \in ExtractionPool}
            \cup {Join(l, <<" ">>) : l \in EditPool}

\* C7: every write submits the key of a fetched record, the version fetched with it,
\* a new abstract, and all other fields of the record as fetched.
C7_WriteCarriesFetchedRecord ==
    \A i \in 1..Len(writes) :
        /\ ~dry_run
        /\ writes[i].payload.abstractNote \in NewAbstracts
        /\ \E j \in 1..Len(fetched) :
              /\ writes[i].payload.key = fetched[j].key
              /\ writes[i].payload.version = fetched[j].version
              /\ writes[i].payload =
                    [fetched[j] EXCEPT !.abstractNote = writes[i].payload.abstractNote]

\* a write was issued for a record that another actor had changed since the fetch:
\* it carried the fetched version and was rejected
C7_Witness ==
    /\ Len(writes) >= 1
    /\ ~writes[1].accepted
    /\ \E j \in 1..Len(library) :
          /\ library[j].key = writes[1].payload.key
          /\ library[j].version = writes[1].payload.version + 1

\* C8, as claimed: every rejected write is counted once in the error counter.
C8_RejectedWriteCounted ==
    Cardinality({i \in 1..Len(writes) : ~writes[i].accepted}) <= stats[ErrorCounter(script)]

\* no record matches the entry by normalized identifier, raw identifier or title
Unmatched(e) ==
    /\ RecordsWithDoi(clean_doi(EntryDoi(e))) = {}
    /\ RecordsWithDoi(EntryDoi(e)) = {}
    /\ RecordsWithTitle(e) = {}

\* C9: in replay, an entry that matches no record adds one to the error counter and
\* to nothing else, causes no write, and the loop goes on to the next entry; a replay
\* that has ended has been through every entry.
C9_UnmatchedEntry ==
    /\ [][(pc = "replay" /\ idx <= Len(updates) /\ idx' = idx + 1 /\ Unmatched(updates[idx])) =>
             /\ stats' = Add(stats, ErrorCounter(script), 1)
             /\ writes' = writes
             /\ library' = library
             /\ all_items' = all_items
             /\ pc' = "replay"]_vars
    /\ [](mode = "replay" /\ pc = "done" => idx = Len(updates) + 1)

\* a live replay of two entries has ended: the first matched nothing, the second was
\* written
C9_Witness ==
    /\ mode = "replay"
    /\ pc = "done"
    /\ Len(updates) = 2
    /\ Unmatched(updates[1])
    /\ stats[ErrorCounter(script)] = 1
    /\ Len(writes) = 1
    /\ writes[1].accepted

\* C10, as claimed: a run that got past the credential check and has ended has printed
\* the summary exactly once.
C10_SummaryOnce ==
    pc = "done" => summaries = 1

-----------------------------------------------------------------------------
(* Claims about replaying a ledger twice *)

\* no request to the library failed in transport, in either run
NoTransportFailure ==
    /\ \A i \in 1..Len(first_writes) : ~first_writes[i].netfail
    /\ \A i \in 1..Len(writes) : ~writes[i].netfail

\* every record of the library has the abstract the second run fetched, that is, the
\* abstract it had when the first replay ended
AbstractsAsAfterFirstReplay ==
    \A j \in 1..Len(library) : library[j].abstractNote = fetched[j].abstractNote

\* the write is the first of its run for its record
FirstWriteOfRecord(i) ==
    \A k \in 1..(i - 1) : writes[k].payload.key # writes[i].payload.key

-----------------------------------------------------------------------------
(* Claims about the segmenter *)

\* the start patterns whose candidate has more than 50 and fewer than 1000 words
ValidatingPatterns ==
    {k \in 1..Len(ABSTRACT_START_PATTERNS) :
        /\ StartMatches(page_text, k)
        /\ LET n == WordCount(Candidate(page_text, k)) IN n > 50 /\ n < 1000}

\* C12: the segmenter goes through the start markers in priority order and
\* returns the candidate of the first one whose candidate has strictly more than
\* 50 and strictly fewer than 1000 words, whatever the later ones would give; it
\* returns None exactly when no start marker has such a candidate.
C12_FirstValidatingMarker ==
    /\ spc = "search" =>
          \A k \in ValidatingPatterns : k >= start_no
    /\ spc = "returned" =>
          IF ValidatingPatterns = {}
          THEN result.none
          ELSE /\ ~result.none
               /\ start_no = SetMin(ValidatingPatterns)
               /\ result.abstract = Candidate(page_text, start_no)

\* a marker of lower priority wins after the first one matched and was rejected
C12_Witness ==
    /\ spc = "returned" /\ ~result.none
    /\ start_no = 2
    /\ StartMatches(page_text, 1)
    /\ WordCount(Candidate(page_text, 1)) <= 50

\* where the end markers match in t, as numbers of characters before the match
EndMarkerStarts(t) ==
    {i - 1 : i \in {j \in 1..Len(t) : \E k \in 1..8 : EndPatternAt(t, j, k)}}

\* C13: the candidate of a start marker is the text after it, cut where the
\* earliest match of any end marker begins, whatever the place of that marker in
\* the list; with no end marker in the text after the start marker, the candidate
\* goes to the end of the text.
C13_CutAtEarliestEndMarker ==
    /\ end_pos = IF EndMarkerStarts(remaining_text) = {}
                 THEN Len(remaining_text)
                 ELSE SetMin(EndMarkerStarts(remaining_text))
    /\ spc = "returned" /\ ~result.none =>
          /\ remaining_text = RemainingText(page_text, start_no)
          /\ result.abstract = _clean_abstract(Strip(SubSeq(remaining_text, 1, end_pos)))

\* the cut is at an Introduction header although the keywords label, first in
\* the list, matches further on
C13_Witness ==
    /\ spc = "returned" /\ ~result.none
    /\ SearchEnd(remaining_text, 1) < Len(remaining_text)
    /\ SearchEnd(remaining_text, 3) < SearchEnd(remaining_text, 1)
    /\ end_pos = SearchEnd(remaining_text, 3)

\* the text is 'Abstract: ', then a body, then 'Keywords: foo, bar'
IsExample(t) ==
    /\ Len(t) >= 28
    /\ SubSeq(t, 1, 10) = <<"A","b","s","t","r","a","c","t",":"," ">>
    /\ SubSeq(t, Len(t) - 17, Len(t)) = <<"K","e","y","w","o","r","d","s",":"," ","f","o","o",","," ","b","a","r">>

\* the body of such a text
Body(t) == SubSeq(t, 11, Len(t) - 18)

\* the words of a body, joined by single spaces
JoinedWords(b) == Strip(CollapseWhitespace(b))

\* the words of the body bring no end marker of their own, the first does not
\* begin with a digit, a dash or a colon, the last does not end in a digit and is
\* separated from the keywords label
PlainBody(t) ==
    LET b == Body(t)
    IN  /\ b # <<>> /\ b[Len(b)] \in Whitespace
        /\ EndMarkerStarts(b \o <<"K","e","y","w","o","r","d","s">>) = {}
        /\ JoinedWords(b)[1] \notin Digits \cup {"-", ":"}
        /\ JoinedWords(b)[Len(JoinedWords(b))] \notin Digits

\* some start marker matches, and the candidate of each one that does has 30 words
OnlyShortSpans(t) ==
    /\ \E k \in 1..Len(ABSTRACT_START_PATTERNS) : StartMatches(t, k)
    /\ \A k \in 1..Len(ABSTRACT_START_PATTERNS) :
          StartMatches(t, k) => WordCount(Candidate(t, k)) = 30

\* C14 as stated: 'Abstract: ', any 120 words, 'Keywords: foo, bar' gives
\* exactly the 120 words joined by single spaces; a text whose only abstract-like
\* span has 30 words gives no result.
C14_ExampleAnyWords ==
    spc = "returned" =>
       /\ IsExample(page_text) /\ WordCount(Body(page_text)) = 120 =>
             ~result.none /\ result.abstract = JoinedWords(Body(page_text))
       /\ OnlyShortSpans(page_text) => result.none

\* C14: 'Abstract: ', then 120 words that bring no end marker or page-number
\* artifact of their own, separated by spaces or newlines, then 'Keywords: foo,
\* bar' gives exactly the 120 words joined by single spaces and nothing from
\* 'Keywords' onward; a text whose only abstract-like span has 30 words gives no
\* result.
C14_Example ==
    spc = "returned" =>
       /\ ( /\ IsExample(page_text) /\ WordCount(Body(page_text)) = 120
            /\ PlainBody(page_text) ) =>
             ~result.none /\ result.abstract = JoinedWords(Body(page_text))
       /\ OnlyShortSpans(page_text) => result.none

\* the 120 words, some of them separated by newlines, have been returned on one line
C14_Witness ==
    /\ spc = "returned"
    /\ IsExample(page_text) /\ WordCount(Body(page_text)) = 120 /\ PlainBody(page_text)
    /\ \E i \in 1..Len(Body(page_text)) : Body(page_text)[i] = "\n"
    /\ result = [none |-> FALSE, abstract |-> Words(120, Spaces)]

\* a text with a span of 30 words and no other has given no result
C14_WitnessShort ==
    spc = "returned" /\ OnlyShortSpans(page_text) /\ result.none

\* the last candidate before the page-number artifacts are removed from it
RawCandidate == CollapseWhitespace(Strip(SubSeq(remaining_text, 1, end_pos)))

\* no newline or tab, no two spaces in a row, no space at either end
SingleLine(a) ==
    /\ \A i \in 1..Len(a) : a[i] \notin Whitespace \ {" "}
    /\ \A i \in 1..(Len(a) - 1) : ~(a[i] = " " /\ a[i + 1] = " ")
    /\ a[1] # " " /\ a[Len(a)] # " "

\* the last word of a
LastWord(a) == SubSeq(a, RunStart(a, Len(a), WordChars \cup {".", ",", "-", ":"}) + 1, Len(a))

\* a begins with two runs of digits and dashes that a space separates
TwoLeadingRuns(a) ==
    LET p == RunEnd(a, 1, Digits \cup {"-"})
    IN  p > 1 /\ At(a, p) = " " /\ At(a, p + 1) \in Digits \cup {"-"}

\* a ends with two runs of digits that a space separates
TwoTrailingRuns(a) ==
    LET q == RunStart(a, Len(a), Digits)
    IN  q < Len(a) /\ At(a, q) = " " /\ At(a, q - 1) \in Digits

\* C15 as stated: every result is a single line without a run of whitespace or
\* whitespace at its ends, does not begin with a digit or a dash and does not end
\* with a word of bare digits.
C15_SingleLineNoArtifacts ==
    spc = "returned" /\ ~result.none =>
       /\ SingleLine(result.abstract)
       /\ result.abstract[1] \notin Digits \cup {"-"}
       /\ \E i \in 1..Len(LastWord(result.abstract)) : LastWord(result.abstract)[i] \notin Digits

\* C15: every result is a single line: no newline, no run of two or more
\* whitespace characters, no whitespace at its ends. One leading run of digits and
\* dashes and one trailing run of digits have been removed: the result begins
\* with a digit or a dash only when the candidate began with two such runs, and
\* ends in a digit only when the candidate ended with two runs of digits.
C15_SingleLine ==
    spc = "returned" /\ ~result.none =>
       /\ SingleLine(result.abstract)
       /\ result.abstract[1] \in Digits \cup {"-"} => TwoLeadingRuns(RawCandidate)
       /\ result.abstract[Len(result.abstract)] \in Digits => TwoTrailingRuns(RawCandidate)

\* a candidate of several lines with a page number at each end has been returned
\* as its words on one line
C15_Witness ==
    /\ spc = "returned" /\ ~result.none
    /\ \E i \in 1..(end_pos - 1) :
          remaining_text[i] \in Whitespace /\ remaining_text[i + 1] \in Whitespace
    /\ RawCandidate[1] \in Digits /\ RawCandidate[Len(RawCandidate)] \in Digits
    /\ result.abstract = Words(60, Spaces)

-----------------------------------------------------------------------------
(* Claims about clean_doi *)

\* C16: clean_doi is idempotent: applied to its own result it returns that
\* result, for every input.
C16_Idempotent ==
    calls >= 1 => clean_doi(cleaned) = cleaned

\* C17: a bare identifier decorated with a resolver prefix, a doi: label in any
\* case, trailing punctuation and surrounding whitespace is cleaned to exactly
\* the identifier; the empty string is cleaned to the empty string.
C17_DecoratedGivesCore ==
    calls = 1 =>
       /\ \A lead \in SpacePool, resolver \in ResolverPool, label \in LabelPool,
             punct \in PunctuationPool, trail \in SpacePool :
             raw_doi = Decorated(lead, resolver, label, core, punct, trail) => cleaned = core
       /\ raw_doi = <<>> => cleaned = <<>>

-----------------------------------------------------------------------------
(* Claims about the log prefix *)

\* every line begins with a date, a time with milliseconds and ' - INFO - '
AllPrefixed(lines) == \A i \in 1..Len(lines) : MatchTemplate(lines[i], LogPrefixPattern)

\* the same lines with that prefix cut off
WithoutPrefix(lines) == [i \in 1..Len(lines) |-> Drop(lines[i], Len(LogPrefixPattern))]

\* C18: a ledger whose every line carries the log prefix is parsed to exactly
\* the entries that the same lines without the prefix are parsed to.
C18_PrefixTolerance ==
    (lpc = "parsed" /\ AllPrefixed(ledger))
        => Updates(ps) = ParseFile(WithoutPrefix(ledger)).items

\* a prefixed ledger has been parsed to two entries
C18_Witness ==
    /\ lpc = "parsed"
    /\ ledger # <<>> /\ AllPrefixed(ledger)
    /\ Len(Updates(ps)) = 2
    /\ ParseFile(WithoutPrefix(ledger)).items = Updates(ps)

-----------------------------------------------------------------------------
(* Claims about the counters of a discovery run *)

\* the citation records with an empty abstract and an identifier, in the DOI
\* field or inside the url
MissingWithIdentifier(items) ==
    {j \in 1..Len(items) :
        /\ items[j].itemType \notin NonCitationTypes
        /\ Strip(items[j].abstractNote) = <<>>
        /\ Strip(items[j].DOI) # <<>> \/ UrlDoi(items[j].url) # <<>>}

\* the lookups that gave an abstract
FoundAnswers == {i \in 1..Len(answers) : answers[i] # <<>>}

\* the spec's scenario: three records, two without abstract and with an identifier,
\* one without either; the first lookup gives an abstract of 80 words, the second
\* finds nothing, and the one update succeeds
Scenario ==
    /\ script = "fetcher" /\ mode = "discovery" /\ pc = "done"
    /\ fetched = <<R_X, R_U, R_N>>
    /\ answers = <<Words(80, Spaces), <<>>>>
    /\ stats["errors"] = 0

\* C19: at the end of a discovery run of the fetcher, 'missing with identifier' is
\* the number of citation records with an empty abstract and an identifier, 'found'
\* the number of lookups that gave an abstract, and 'updated' the number of those
\* whose update succeeded, in preview or live; in the scenario the counters are 2,
\* 1 and 1.
C19_CountersMatchEvents ==
    (script = "fetcher" /\ mode = "discovery" /\ pc = "done") =>
       /\ stats["missing_abstract_with_doi"] = Cardinality(MissingWithIdentifier(fetched))
       /\ stats["abstracts_found"] = Cardinality(FoundAnswers)
       /\ stats["abstracts_updated"] =
             IF dry_run THEN Cardinality(FoundAnswers)
             ELSE Cardinality({i \in 1..Len(writes) : writes[i].accepted})
       /\ Scenario =>
             /\ stats["missing_abstract_with_doi"] = 2
             /\ stats["abstracts_found"] = 1
             /\ stats["abstracts_updated"] = 1

\* the scenario has been run live, and its one write was accepted
C19_Witness ==
    /\ Scenario /\ ~dry_run
    /\ Len(writes) = 1 /\ writes[1].accepted
    /\ stats["missing_abstract_with_doi"] = 2
    /\ stats["abstracts_found"] = 1
    /\ stats["abstracts_updated"] = 1

-----------------------------------------------------------------------------
(* Claims about --limit *)

\* the qualifying records of a discovery run, in enumeration order, before --limit
Qualifying ==
    IF script = "fetcher"
    THEN get_items_missing_abstracts(fetched, NoLimit, stats).queue
    ELSE get_items_missing_abstracts_with_pdfs(fetched, NoLimit, stats).queue

\* C20: a run started with --limit N, N >= 0, looks up, extracts and writes at
\* most N records, and the records it takes up are the first N qualifying ones in
\* enumeration order.
C20_LimitBoundsProcessed ==
    limit # NoLimit =>
       /\ lookups <= limit
       /\ Len(writes) <= limit
       /\ mode = "discovery" =>
             /\ Len(queue) <= limit
             /\ \A i \in 1..Len(queue) : queue[i].item = Qualifying[i].item

-----------------------------------------------------------------------------
(* Claims about the citation label *)

\* the creators with role author, in their order
AuthorsOnly(creators) ==
    LET at == SortedSeq({i \in 1..Len(creators) : creators[i].creatorType = "author"})
    IN  [k \in 1..Len(at) |-> creators[at[k]]]

\* the name that stands for an author: the last name, 'Unknown' when it is missing
Slot(a) == IF a.hasLastName THEN a.lastName ELSE <<"U","n","k","n","o","w","n">>

ExpectedAuthorPart(creators) ==
    LET a == AuthorsOnly(creators)
    IN  CASE Len(a) = 0 -> <<"U","n","k","n","o","w","n">>
          [] Len(a) = 1 -> Slot(a[1])
          [] Len(a) = 2 -> Slot(a[1]) \o <<" ","&"," ">> \o Slot(a[2])
          [] OTHER -> Slot(a[1]) \o <<" ","e","t"," ","a","l",".">>

\* the numbers and words of the date: its maximal runs of letters, digits and underscores
TokensOf(date) ==
    LET starts == SortedSeq({i \in 1..Len(date) :
                      date[i] \in WordChars /\ At(date, i - 1) \notin WordChars})
    IN  [k \in 1..Len(starts) |-> SubSeq(date, starts[k], RunEnd(date, starts[k], WordChars) - 1)]

\* a four-digit year of the 1900s or the 2000s
IsYear(t) ==
    /\ Len(t) = 4
    /\ \A i \in 1..4 : t[i] \in Digits
    /\ SubSeq(t, 1, 2) \in {<<"1","9">>, <<"2","0">>}

ExpectedYearPart(date) ==
    LET years == SelectSeq(TokensOf(date), IsYear)
    IN  IF years = <<>> THEN <<"n",".","d",".">> ELSE years[1]

\* C21: the label is the author part, a space and the year part; the author part is
\* 'Unknown' for no author, the last name for one, 'A & B' for two and 'A et al.' for
\* three or more, counting only the creators with role author and writing 'Unknown'
\* for a missing last name; the year part is the first four-digit number 19xx or 20xx
\* of the date, 'n.d.' when there is none
C21_CitationLabel ==
    fpc = "cited" =>
        /\ formatted = ExpectedAuthorPart(item_data.creators) \o <<" ">>
                          \o ExpectedYearPart(item_data.date)
        /\ formatted = format_citation([item_data EXCEPT !.creators = AuthorsOnly(@)])

\* Smith, an editor and Jones, with date '2020-03', have been given 'Smith & Jones 2020'
C21_Witness ==
    /\ fpc = "cited"
    /\ item_data.creators = << Creator("author", TRUE, <<"S","m","i","t","h">>),
                               Creator("editor", TRUE, <<"E","d">>),
                               Creator("author", TRUE, <<"J","o","n","e","s">>) >>
    /\ item_data.date = <<"2","0","2","0","-","0","3">>
    /\ formatted = <<"S","m","i","t","h"," ","&"," ","J","o","n","e","s"," ","2","0","2","0">>

-----------------------------------------------------------------------------
(* Claims about the reconstruction of an abstract *)

\* C22: for the index that maps each distinct word of a word sequence to the positions
\* at which it occurs, reconstruct_abstract returns the words in their order, joined
\* by single spaces, and the empty string for the empty index
C22_ReconstructionInvertsIndex ==
    fpc = "rebuilt" =>
        /\ rebuilt = Join(word_seq, <<" ">>)
        /\ inverted_index = <<>> => rebuilt = <<>>

\* 'a new a' has been rebuilt from an index that lists 'new' before 'a'
C22_Witness ==
    /\ fpc = "rebuilt"
    /\ word_seq = << <<"a">>, <<"n","e","w">>, <<"a">> >>
    /\ inverted_index[1].word = <<"n","e","w">>
    /\ rebuilt = <<"a"," ","n","e","w"," ","a">>

-----------------------------------------------------------------------------
(* Claims about the entries the parser starts *)

\* the 'Processing [' lines among the lines read so far
ProcessingLinesRead == {k \in 1..(lpos - 1) : FieldOfLine(ledger[k]) = "processing"}

\* C23: every 'Processing [' line starts a fresh entry: the entry that field lines
\* write to is never one already appended to the result, no entry is in the result
\* twice, and the result has at most one entry per 'Processing [' line read, the
\* citations in the order of those lines
C23_ProcessingStartsFreshEntry ==
    origin \in {"serialized", "edited"} =>
        /\ lpc = "reading" => \A i \in 1..Len(ps.updates) : ps.updates[i] # ps.cur
        /\ \A i, j \in 1..Len(ps.updates) : ps.updates[i] = ps.updates[j] => i = j
        /\ Len(ps.updates) <= Cardinality(ProcessingLinesRead)
        /\ \A i, j \in 1..Len(ps.updates) : i < j => ps.updates[i] < ps.updates[j]

-----------------------------------------------------------------------------
(* Claims about the approval prompt *)

\* the extractor in discovery mode, neither --verbose nor --dry-run: every abstract
\* extracted is shown at the prompt
Interactive == script = "extractor" /\ mode = "discovery" /\ ~verbose /\ ~dry_run

\* the writes issued on response k: those between it and the next response
WritesOn(k) ==
    (IF k = Len(responses) THEN Len(writes) ELSE responses[k + 1].issued)
        - responses[k].issued

\* the record that element i of the list stands for
RecordAt(i) == all_items[queue[i].item]

\* response k was followed by one write, of text t to the record it was given for
OneWriteOf(k, t) ==
    /\ WritesOn(k) = 1
    /\ writes[responses[k].issued + 1].payload.key = RecordAt(responses[k].at).key
    /\ writes[responses[k].issued + 1].payload.abstractNote = t

\* the responses that end the prompt of a record
Decisive(i) == {k \in 1..Len(responses) :
                   responses[k].at = i /\ responses[k].response # "other"}

\* every update the library accepted is in the library
AppliedInPlace ==
    \A w \in 1..Len(writes) :
        writes[w].accepted =>
            \E j \in 1..Len(library) :
                /\ library[j].key = writes[w].payload.key
                /\ library[j].abstractNote = writes[w].payload.abstractNote

\* what follows a response other than edit
OutcomeOf(k) ==
    CASE responses[k].response = "y" -> OneWriteOf(k, answers[responses[k].at])
      [] responses[k].response = "q" ->
            /\ WritesOn(k) = 0
            /\ k = Len(responses)
            /\ pc = "done"
            /\ lookups = responses[k].lookups
            /\ ext_edits = 0 => AppliedInPlace
      [] OTHER -> WritesOn(k) = 0

\* each record shown at the prompt gets one decisive response, once it is left
DecidedOnce ==
    \A i \in 1..Len(answers) :
        answers[i] # <<>> =>
            Cardinality(Decisive(i)) = IF i < idx \/ pc = "done" THEN 1 ELSE 0

\* every write follows a yes or an edit given for the record it is for
EveryWriteApproved ==
    \A w \in 1..Len(writes) :
        \E k \in 1..Len(responses) :
            /\ responses[k].issued = w - 1
            /\ responses[k].response \in {"y", "e"}
            /\ writes[w].payload.key = RecordAt(responses[k].at).key

\* C24: in the extractor's interactive live run each record that reaches the prompt
\* ends in exactly one of Applied (yes: one write of the extracted abstract), Skipped
\* (no: no write), Edited then Applied (edit: one write of the edited text), Quit (no
\* write for it, nothing downloaded or written afterwards, what was applied stays
\* applied); and every write follows a yes or an edit for its record
C24_PromptOutcomes ==
    Interactive =>
        /\ DecidedOnce
        /\ \A k \in 1..Len(responses) :
              IF responses[k].response = "e"
              THEN OneWriteOf(k, responses[k].text)
              ELSE OutcomeOf(k)
        /\ EveryWriteApproved

\* C24, amended: the same, except that an edit with no line of text is followed by
\* no write: the record is left as it is
C24_PromptOutcomesOrEmptyEdit ==
    Interactive =>
        /\ DecidedOnce
        /\ \A k \in 1..Len(responses) :
              IF responses[k].response = "e"
              THEN IF responses[k].text = <<>>
                   THEN WritesOn(k) = 0
                   ELSE OneWriteOf(k, responses[k].text)
              ELSE OutcomeOf(k)
        /\ EveryWriteApproved

\* an edited abstract was applied for the first PDF, the operator answered the prompt
\* of the second with an edit of no line, and the run came to its summary
C24_Witness ==
    /\ Interactive
    /\ pc = "done"
    /\ Len(responses) = 2
    /\ responses[1].response = "e" /\ responses[1].text # <<>>
    /\ Len(writes) = 1 /\ writes[1].accepted
    /\ responses[2].response = "e" /\ responses[2].text = <<>>

-----------------------------------------------------------------------------
(* Claims about the counters of a replay *)

\* the entries the replay loop has been through
EntriesDone == idx - 1

\* C25: in replay mode every ledger entry increments exactly one of the two outcome
\* counters, once: after each entry the two counters sum to the number of entries
\* processed, and when the summary is printed they sum to the number of entries of
\* the ledger
C25_OneOutcomePerEntry ==
    mode = "replay" =>
        /\ stats[UpdatedCounter(script)] + stats[ErrorCounter(script)] = EntriesDone
        /\ summaries > 0 =>
              /\ EntriesDone = Len(updates)
              /\ Len(updates) = Len(ParseFile(ledger).items)
              /\ summaries = 1

\* the summary of a live replay of two entries has been printed: one was applied, the
\* write of the other was rejected
C25_Witness ==
    /\ mode = "replay" /\ ~dry_run
    /\ summaries = 1
    /\ Len(updates) = 2
    /\ stats[UpdatedCounter(script)] = 1 /\ stats[ErrorCounter(script)] = 1
    /\ Len(writes) = 2 /\ writes[1].accepted /\ ~writes[2].accepted

-----------------------------------------------------------------------------
(* Claims about the records a run writes to *)

\* the record of key k as the run fetched it
FetchedRecord(k) == fetched[CHOOSE j \in 1..Len(fetched) : fetched[j].key = k]

\* C26: no write is issued for a record whose abstract was not empty when the run
\* fetched it, in discovery mode or in replay mode
C26_OnlyMissingAbstractsWritten ==
    \A w \in 1..Len(writes) : IsMissing(FetchedRecord(writes[w].payload.key))

\* C27: within one run each record is the target of at most one write, so that no
\* write carries a version that an earlier write of the run has made stale; in
\* replay mode for any ledger, in the extractor's discovery mode for any library
C27_OneWritePerRecord ==
    (mode = "replay" \/ (mode = "discovery" /\ script = "extractor")) =>
        /\ \A v, w \in 1..Len(writes) :
              writes[v].payload.key = writes[w].payload.key => v = w
        /\ \A v, w \in 1..Len(writes) :
              (v < w /\ writes[v].accepted) =>
                  ~(/\ writes[w].payload.key = writes[v].payload.key
                    /\ writes[w].payload.version <= writes[v].payload.version)

\* the entry the replay loop has just been through
EntryDone == updates[idx - 1]

\* the entry resolved by its identifier, cleaned or as written
ResolvedByDoi(e) ==
    \/ DoiLookup(all_items, clean_doi(DictGet(e, "doi", <<>>))) # 0
    \/ DoiLookup(all_items, DictGet(e, "doi", <<>>)) # 0

\* C28: replay resolves a ledger entry to citation records only and writes to them
\* only, never to an attachment, a note or an annotation; and an entry whose title
\* is empty or absent is not resolved by the title fallback
C28_ReplayWritesCitationRecords ==
    mode = "replay" =>
        /\ matching_item # 0 => all_items[matching_item].itemType \notin NonCitationTypes
        /\ \A w \in 1..Len(writes) : writes[w].payload.itemType \notin NonCitationTypes
        /\ (idx > 1 /\ matching_item # 0 /\ DictGet(EntryDone, "title", <<>>) = <<>>)
              => ResolvedByDoi(EntryDone)

====
